---- MODULE Spec2Model ----
(***************************************************************************)
(* A model of electron-json-rpc: the client-side correlation of calls      *)
(* (src/src/preload.ts, src/src/renderer/client.ts) and the host-side      *)
(* dispatch and stream production (class RpcServer, whose source is the    *)
(* listing in src/README.zh-CN.md, lines 903-1397).                        *)
(*                                                                         *)
(* Both sides are single-threaded JavaScript event loops.  A macrotask (an *)
(* inbound IPC frame, a timer, a source producing data) runs only when the *)
(* microtask queue of its process is empty; promise continuations are      *)
(* microtasks and run in FIFO order.                                       *)
(***************************************************************************)
EXTENDS Integers, Sequences, FiniteSets, TLC

(***************************************************************************)
(* Bounds of the model.                                                    *)
(***************************************************************************)
MaxCalls == 2
MaxResponses == 2
MaxStreams == 1
MaxItems == 2
MaxWindows == 2
MaxHandlers == 2

(***************************************************************************)
(* Program constants.                                                      *)
(***************************************************************************)
ExposedCallTimeout == 30000
DefaultTimeout == 30000
InvalidRequestCode == -32600
MethodNotFoundCode == -32601
InvalidParamsCode == -32602
InternalErrorCode == -32603
HEALTH_CHECK_METHOD == "__rpc_health__"
RPC_CHANNEL == "json-rpc"
STREAM_CHANNEL == "json-rpc-stream"
EVENT_CHANNEL == "json-rpc-events"

(***************************************************************************)
(* Inputs.                                                                 *)
(***************************************************************************)
Calls == 1..MaxCalls
Results == {"ok"}
\* An optional value: absent, or present.
None == <<>>
Some(x) == <<x>>

\* The timeout argument of createPreloadClient(ipc, timeout) and of
\* createRpcClient({timeout}): absent, or a number of milliseconds.
Timeouts == {None, Some(0), Some(50), Some(60000)}

\* A response frame {jsonrpc, id, result?, error?}.
ResponseFrame(id, result, error) ==
  [ch |-> "rpc", id |-> id, result |-> result, error |-> error]

\* The value null, which is neither absent nor any Some(x).
Null == <<0, 0>>

\* A value of a request's method property: absent, a string, or not a string.
Str(s) == <<"string", s>>
NotAString == <<"number", "7">>

\* Values that travel as params and as arguments: a number, an object, an
\* array of values; params may also be absent (undefined).
Num(n) == [kind |-> "number", val |-> <<n>>]
Obj(props) == [kind |-> "object", val |-> props]
Arr(items) == [kind |-> "array", val |-> items]
Undefined == [kind |-> "undefined", val |-> <<>>]

\* createJsonRpcError(code, message, data): {code, message, data}.
createJsonRpcError(code, message, data) == [code |-> code, message |-> message, data |-> data]

\* errors.invalidRequest()
invalidRequest == createJsonRpcError(InvalidRequestCode, "Invalid Request", None)

\* The error without the name of the method.
methodNotFound_NoName(method) ==
  createJsonRpcError(MethodNotFoundCode, << "Method not found", "" >>, None)

\* errors.methodNotFound(method): `Method not found: ${method}`, the text and
\* the method name it is concatenated with.
methodNotFound(method) ==
  createJsonRpcError(MethodNotFoundCode, << "Method not found: ", method >>, None)

\* errors.invalidParams(data)
invalidParams(data) == createJsonRpcError(InvalidParamsCode, "Invalid params", data)

WireErrors == { methodNotFound("m") }

\* A request frame {jsonrpc, id?, method, params}; inv names the invocation
\* of the model the frame belongs to and is no property of the frame.
RequestFrame(id, method, params, inv) ==
  [ch |-> "rpc", id |-> id, method |-> method, params |-> params, inv |-> inv]

ResponsePayloads ==
  { [result |-> Some(r), error |-> None] : r \in Results } \cup
  { [result |-> None, error |-> Some(e)] : e \in WireErrors }

VARIABLES
  requestIdCounter, \* state.requestIdCounter of the preload module
  c2h,              \* frames sent client -> host and not yet received, in send order
  disposed,         \* dispose() of the preload client has run
  calls,            \* per call: the API it was issued through, its id, its timeout
  rpcListeners,     \* calls whose response listener is registered on "json-rpc"
  timers,           \* armed timers: <<call, layer>>
  inner,            \* the promise returned by the preload call operation
  outer,            \* the promise returned by createRpcClient(...).call
  nResponses,       \* response frames delivered so far
  first,            \* history: per call, the first of {response with its id, its preload timer}
  late,             \* history: per call, a response with its id came after that first event
  atDispose,        \* history: the calls that were pending when dispose() ran
  atLoss,           \* history: the calls that were pending at the last connection loss
  isListening,      \* RpcServer.isListening
  ipcListeners,     \* per channel of ipcMain: the listeners of the server attached to it
  lastCall,         \* history: the last of listen() and dispose() that was called
  methods,          \* RpcServer.methods: the registered method names
  streamIdCounter,  \* streamIdCounter of stream.ts
  streams,          \* RpcServer.streams: the stream ids with an entry
  hostMicro,        \* the microtask queue of the host process
  hs,               \* per stream invocation: the progress of executeStreamHandler
  hostSent,         \* every frame the host sent to the client, in send order
  pr,               \* per invocation: the progress of processRequest
  eventSubscribers, \* RpcServer.eventSubscribers: event name -> set of window ids
  connected,        \* the ids of webContents.getAllWebContents()
  published,        \* history: what publish did, if it was the last step of the event bus
  lastBus,          \* history: the event bus message handled last, if that was the last step
  sreq,             \* per stream invocation: its request and what its handler does
  cs,               \* per stream invocation: the ReadableStream of the client and its consumer
  activeStreams,    \* state.activeStreams: <<stream key, invocation>>
  clientMicro,      \* the microtask queue of the client process
  nDelivered,       \* frames of hostSent the client has received so far
  eventHandlers,    \* state.eventHandlers: event name -> set of handlers
  eventOut,         \* messages sent on "json-rpc-events" and not yet received by the host
  nHandlers,        \* the calls of on and once so far
  unsubscribers,    \* the unsubscribe functions that on returned
  called,           \* history: the unsubscribe functions that have been called
  invoked,          \* history: per call of once, how often its callback was invoked
  lastEv,           \* history: the last operation of the event API of the client
  subscribedEvents, \* subscribedEvents of createEventBus
  handlerRegistry,  \* handlerRegistry of createEventBus: event name -> set of callbacks
  exposedApi        \* the properties of the object exposeRpcApi exposed, if it has

callVars == << calls, rpcListeners, timers, inner, outer, nResponses, first, late,
               atDispose, atLoss >>
busVars == << eventSubscribers, connected, published, lastBus >>
listenVars == << isListening, ipcListeners, lastCall >>
hostVars == << listenVars, methods, streamIdCounter, streams, hostMicro, hs, hostSent, pr,
              busVars >>
clientStreamVars == << sreq, cs, activeStreams, clientMicro, nDelivered >>
streamVars == << hostVars, clientStreamVars >>
evVars == << eventHandlers, nHandlers, unsubscribers, called, invoked, lastEv,
            subscribedEvents, handlerRegistry, exposedApi >>
preloadVars == << disposed, evVars, eventOut >>
vars == << requestIdCounter, c2h, preloadVars, callVars, streamVars >>

(***************************************************************************)
(* JavaScript values.                                                      *)
(***************************************************************************)
\* new Error(message) has no code; RpcTimeoutError is a subclass told apart by
\* its name, and records its duration.
ErrorValue(name, message, timeout) ==
  [name |-> name, message |-> message, code |-> None, timeout |-> timeout]

RpcTimeoutError(timeout) == ErrorValue("RpcTimeoutError", "RPC call timed out", Some(timeout))

\* A promise with its resolve and reject functions: the first invocation
\* settles it, n counts the invocations.
PendingPromise == [state |-> "pending", result |-> None, error |-> None, n |-> 0]

Resolve(p, v) ==
  IF p.state = "pending"
  THEN [state |-> "resolved", result |-> Some(v), error |-> None, n |-> p.n + 1]
  ELSE [p EXCEPT !.n = @ + 1]

Reject(p, e) ==
  IF p.state = "pending"
  THEN [state |-> "rejected", result |-> None, error |-> Some(e), n |-> p.n + 1]
  ELSE [p EXCEPT !.n = @ + 1]

NoCall == [api |-> "none", id |-> 0, given |-> <<>>, timeout |-> 0]

Issued == { c \in Calls : calls[c].api # "none" }

(***************************************************************************)
(* Stream invocations.  The handler of a stream method returns a plain     *)
(* value, returns a ReadableStream, or throws; it does so synchronously,   *)
(* or through a promise that settles later.  The source of a returned      *)
(* stream yields the values 1, 2, ... and then closes or fails; what it    *)
(* yields is decided read by read.                                         *)
(***************************************************************************)
StreamSlots == 1..MaxStreams

\* The invocations the tables of the model have room for: one more is used
\* where the ids of several streams are compared.
Invocations == 1..(MaxStreams + 1)

HandlerOutcomes == {"value", "stream", "throw"}
ReadResults == {"value", "done", "error"}

\* sender is the sender of the IPC event the request arrives in, if it has one.
NoRequest ==
  [kind |-> "none", id |-> None, method |-> None, params |-> Undefined, sender |-> None]

\* executeStreamHandler has not been entered. result is what the handler
\* returned, reads the number of values read from its stream, ending how
\* that stream ended; to lists, for each frame sendChunk sent, the windows it
\* was sent to.
NoExecution ==
  [phase |-> "none", sid |-> 0, result |-> "none", reads |-> 0, readPending |-> FALSE,
   ending |-> "none", to |-> <<>>]

\* createStreamChunk(streamId, type, data): {streamId, type, data}; it sets no
\* error property.
createStreamChunk(streamId, type, data) ==
  [ch |-> "stream", streamId |-> streamId, type |-> type, data |-> data, error |-> None]

\* What a validator or a handler throws: an Error instance, an object of the
\* shape of a JSON-RPC error ({code, message}), or a string.
ThrownError(message) ==
  [type |-> "Error", name |-> "Error", code |-> None, message |-> Some(message)]
ThrownObject(code, message) ==
  [type |-> "object", name |-> "", code |-> Some(code), message |-> Some(message)]
ThrownString == [type |-> "string", name |-> "", code |-> None, message |-> None]

ThrownValues == { ThrownError("boom"), ThrownObject(-32000, "denied"), ThrownString }

\* isJsonRpcError(error): an object with a numeric code and a string message.
isJsonRpcError(e) == e.type \in {"object", "Error"} /\ e.code # None /\ e.message # None

\* A conversion that reports every thrown value as an internal error.
errorToJsonRpc_AlwaysInternal(e) ==
  createJsonRpcError(InternalErrorCode,
                     IF e.message # None THEN e.message[1] ELSE "Unknown error", None)

\* errorToJsonRpc(error): a JSON-RPC error is returned as it is; an Error
\* instance gives {InternalError, error.message, error.name}; any other value
\* gives {InternalError, "Unknown error", error}.
errorToJsonRpc(e) ==
  IF isJsonRpcError(e) THEN createJsonRpcError(e.code[1], e.message[1], None)
  ELSE IF e.type = "Error"
       THEN createJsonRpcError(InternalErrorCode, e.message[1], Some(e.name))
       ELSE createJsonRpcError(InternalErrorCode, "Unknown error", Some(e))

\* The methods the application registers: "m" with register(name, handler,
\* {validate}), "s" with registerStream(name, handler), "sv" with
\* registerStream(name, handler, {validate}). The constructor registers the
\* health check, which has no validator.
PlainMethods == {"m"}
StreamMethods == {"s", "sv"}

\* storedMethod.isStream and storedMethod.validate of a registered name.
IsStream(name) == name \in StreamMethods
HasValidate(name) == name \in {"m", "sv"}

ValidatorOutcomes == {"pass", "throw"}

\* processRequest has not been entered. trace lists what it did, in order:
\* "lookup" (methods.get), "validate" and "handler" (the calls of the two
\* functions), "mint" (generateStreamId); vargs and hargs are the argument
\* lists the validator and the handler were called with, vres and hres how
\* the two ended; throws is what the validator or the handler threw, table
\* the names that were registered when the request arrived, response what
\* processRequest returned, sender the sender of the event, listeners the
\* number of listeners of the server the frame was handed to.
NoProcess ==
  [phase |-> "none", id |-> None, name |-> "", args |-> <<>>, throws |-> ThrownString,
   trace |-> <<>>, vargs |-> None, hargs |-> None, vres |-> "none", hres |-> "none",
   table |-> {}, response |-> None, sender |-> None, listeners |-> 0]

\* The windows (webContents ids) and the event names of the event bus.
Windows == 1..MaxWindows
EventNames == {"a", "b"}

\* new Map(): no entry.
EmptyMap == [e \in {} |-> {}]

\* publish has not been called; no event bus message has arrived.
NoPublish ==
  [called |-> FALSE, eventName |-> "", data |-> None, subscribers |-> None,
   windows |-> {}, sent |-> <<>>]
NoBusMessage == [type |-> "none", eventName |-> "", sender |-> None, before |-> EmptyMap]

\* The channels listen() attaches a listener to.
Channels == {RPC_CHANNEL, STREAM_CHANNEL, EVENT_CHANNEL}

\* Neither listen() nor dispose() has been called. noop tells whether the
\* call returned at its first test.
NoLifecycleCall == [op |-> "none", noop |-> FALSE]

\* No operation of the event API of the client has run. cb is the callback
\* the operation was called with or made for, again tells whether the
\* unsubscribe function that was called had been called before.
NoEventCall == [op |-> "none", eventName |-> "", cb |-> "", again |-> FALSE]

\* The callbacks an application passes to on, off and once.
Callbacks == {"f", "g"}

\* A job of a microtask queue.
Job(kind, r, arg) == [kind |-> kind, r |-> r, arg |-> arg]

(***************************************************************************)
(* The ReadableStream that stream() returns, as its controller and its     *)
(* reader see it.  state "closing" is a stream whose close was requested   *)
(* while values were still queued.  The last five fields are history: the  *)
(* cancel callback sent an end frame upstream; the terminal frame that     *)
(* handleStreamChunk handled with this controller; a call of the stream    *)
(* listener threw with this controller; a frame found this controller      *)
(* after the consumer had cancelled; a frame for this stream's key found   *)
(* no controller and was dropped.  listener and timer are the response     *)
(* listener and the timeout that start registered for the stream's initial *)
(* call, while they are in place.                                          *)
(***************************************************************************)
NoStream ==
  [phase |-> "none", callId |-> 0, listener |-> FALSE, timer |-> FALSE,
   streamKey |-> None, state |-> "readable",
   queue |-> <<>>, error |-> None, got |-> <<>>, seen |-> "open", cancelled |-> FALSE,
   cancelSent |-> FALSE, term |-> "none", threw |-> FALSE, lateHit |-> FALSE,
   ignored |-> FALSE]

\* controller.enqueue(v): throws unless the stream is readable and not closing.
Enqueue(s, v) ==
  IF s.state = "readable" THEN [s EXCEPT !.queue = Append(@, v)] ELSE s

\* controller.close(): throws unless the stream is readable and not closing;
\* the stream closes once its queue is drained.
Close(s) ==
  IF s.state = "readable"
  THEN [s EXCEPT !.state = IF s.queue = <<>> THEN "closed" ELSE "closing"]
  ELSE s

\* An error that ends the stream as a close does.
ErrorStream_Closes(s, message) == Close(s)

\* controller.error(e): no effect unless the stream is readable; it drops the queue.
ErrorStream(s, message) ==
  IF s.state \in {"readable", "closing"}
  THEN [s EXCEPT !.state = "errored", !.queue = <<>>, !.error = Some(message)]
  ELSE s

Init ==
  /\ requestIdCounter = 0
  /\ calls = [c \in Calls |-> NoCall]
  /\ rpcListeners = {}
  /\ timers = {}
  /\ inner = [c \in Calls |-> PendingPromise]
  /\ outer = [c \in Calls |-> PendingPromise]
  /\ disposed = FALSE
  /\ c2h = <<>>
  /\ nResponses = 0
  /\ first = [c \in Calls |-> None]
  /\ late = [c \in Calls |-> FALSE]
  /\ atDispose = {}
  /\ atLoss = None
  /\ isListening = FALSE
  /\ ipcListeners = [ch \in Channels |-> 0]
  /\ lastCall = NoLifecycleCall
  /\ methods = {HEALTH_CHECK_METHOD}
  /\ streamIdCounter = 0
  /\ streams = {}
  /\ hostMicro = <<>>
  /\ hs = [r \in Invocations |-> NoExecution]
  /\ hostSent = <<>>
  /\ pr = [r \in Invocations |-> NoProcess]
  /\ eventSubscribers = EmptyMap
  /\ connected = {}
  /\ published = NoPublish
  /\ lastBus = NoBusMessage
  /\ sreq = [r \in Invocations |-> NoRequest]
  /\ cs = [r \in Invocations |-> NoStream]
  /\ activeStreams = {}
  /\ clientMicro = <<>>
  /\ nDelivered = 0
  /\ eventHandlers = EmptyMap
  /\ eventOut = <<>>
  /\ nHandlers = 0
  /\ unsubscribers = {}
  /\ called = {}
  /\ invoked = [k \in 1..MaxHandlers |-> 0]
  /\ lastEv = NoEventCall
  /\ subscribedEvents = {}
  /\ handlerRegistry = EmptyMap
  /\ exposedApi = None

(***************************************************************************)
(* The call operation.                                                     *)
(***************************************************************************)
\* A generator that reads the counter without advancing it.
generateRequestId_NotAdvanced == IF requestIdCounter = 0 THEN 1 ELSE requestIdCounter

\* generateRequestId: `rpc_${++state.requestIdCounter}_${Date.now()}`.
generateRequestId == requestIdCounter + 1

\* A parameter with a default value (`timeout = 30000`): the default replaces
\* an absent (undefined) argument and no other.
DefaultParameter(arg, default) == IF arg = None THEN default ELSE arg[1]

\* The delay of the timer the preload call arms: 30000 in the exposed API
\* object, the client's timeout in createPreloadClient.
PreloadTimerDelay(api, timeout) ==
  IF api = "preload" THEN timeout ELSE ExposedCallTimeout

\* The timers a call arms: createRpcClient.call arms its own, then calls the
\* exposed API object, which arms the preload timer.
TimersOfCall(c, api) ==
  IF api = "renderer" THEN { <<c, "renderer">>, <<c, "preload">> }
                      ELSE { <<c, "preload">> }

\* call(method, ...params) through api: "exposed" is the API object of
\* exposeRpcApi, "preload" the client of createPreloadClient(ipc, timeout),
\* "renderer" createRpcClient({timeout}).call over the exposed API object.
IssueCallOf(c, api, timeout, method) ==
  /\ calls[c].api = "none"
  /\ \A d \in Calls : d < c => calls[d].api # "none"
  /\ requestIdCounter' = generateRequestId
  /\ calls' = [calls EXCEPT ![c] = [api |-> api, id |-> generateRequestId,
                                    given |-> timeout,
                                    timeout |-> DefaultParameter(timeout, DefaultTimeout)]]
  /\ timers' = timers \cup TimersOfCall(c, api)
  /\ rpcListeners' = rpcListeners \cup {c}
  /\ c2h' = Append(c2h, RequestFrame(Some(generateRequestId), Str(method), Arr(<<>>), 0))
  /\ UNCHANGED << inner, outer, preloadVars, nResponses, first, late, atDispose, atLoss,
                  streamVars >>

\* A call of the method "m".
IssueCall(c, api, timeout) == IssueCallOf(c, api, timeout, "m")

(***************************************************************************)
(* The response listener of a call.                                        *)
(***************************************************************************)
\* A listener that takes every response for its own.
ResponseMatches_Any(c, resp) == TRUE

\* response.id === id
ResponseMatches(c, resp) == resp.id = Some(calls[c].id)

\* if (response.error) reject(new Error(err.message)) else resolve(response.result)
InnerAfterResponse(c, resp) ==
  IF resp.error # None
  THEN Reject(inner[c], ErrorValue("Error", resp.error[1].message, None))
  ELSE Resolve(inner[c], resp.result[1])

\* A listener that stays registered after its response.
ListenersAfterResponse_Kept(hit) == rpcListeners

\* ipcRenderer.removeListener(RPC_CHANNEL, listener) in the listeners that matched.
ListenersAfterResponse(hit) == rpcListeners \ hit

\* clearTimeout(timeout) in the listeners that matched.
TimersAfterResponse(hit) == { t \in timers : ~(t[1] \in hit /\ t[2] = "preload") }

\* createRpcClient.call: api.call(...).then(resolve).catch(reject). p is the
\* settled promise of api.call; both callbacks run as microtasks right after it settles.
OuterAfterInner(c, p) ==
  IF calls[c].api # "renderer" THEN outer[c]
  ELSE IF p.state = "resolved" THEN Resolve(outer[c], p.result[1])
  ELSE Reject(outer[c], p.error[1])

\* clearTimeout(timeoutId) in both callbacks of createRpcClient.call, for the calls in done.
TimersAfterOuter(ts, done) == { t \in ts : ~(t[1] \in done /\ t[2] = "renderer") }

\* The history of a call: what happened first to it, a response or its timer.
LogFirst(ev, resp, who) ==
  [c \in Calls |-> IF c \in who /\ first[c] = None
                   THEN Some([ev |-> ev, resp |-> resp])
                   ELSE first[c]]

\* A response frame arrives on "json-rpc": every registered listener is called with it.
DeliverResponse(resp) ==
  LET hit == { c \in rpcListeners : ResponseMatches(c, resp) }
      newInner == [c \in Calls |-> IF c \in hit THEN InnerAfterResponse(c, resp) ELSE inner[c]]
      addressed == { c \in Issued : resp.id = Some(calls[c].id) }
  IN /\ nResponses < MaxResponses
     /\ nResponses' = nResponses + 1
     /\ inner' = newInner
     /\ rpcListeners' = ListenersAfterResponse(hit)
     /\ outer' = [c \in Calls |-> IF c \in hit THEN OuterAfterInner(c, newInner[c]) ELSE outer[c]]
     /\ timers' = TimersAfterOuter(TimersAfterResponse(hit), hit)
     /\ first' = LogFirst("response", Some(resp), addressed)
     /\ late' = [c \in Calls |-> late[c] \/ (c \in addressed /\ first[c] # None)]
     /\ UNCHANGED << requestIdCounter, calls, preloadVars, c2h, atDispose, atLoss, streamVars >>

(***************************************************************************)
(* Timers.  The model keeps no clock: calls are issued at arbitrary times, *)
(* so an armed timer may fire at any moment unless another armed timer is  *)
(* certainly due before it.                                                *)
(***************************************************************************)
\* The delay given to setTimeout.
Delay(t) ==
  IF t[2] = "renderer" THEN calls[t[1]].timeout
  ELSE PreloadTimerDelay(calls[t[1]].api, calls[t[1]].timeout)

\* Timers are created in the order of the calls, the one of createRpcClient
\* before the one of the preload call.
CreatedBefore(u, t) == u[1] < t[1] \/ (u[1] = t[1] /\ u[2] = "renderer" /\ t[2] = "preload")

\* u is due before t whatever the time between the calls: u was created
\* earlier (or in the same task) with a delay not greater, or in the same task
\* with a smaller delay.
DueBefore(u, t) ==
  \/ CreatedBefore(u, t) /\ Delay(u) <= Delay(t)
  \/ u[1] = t[1] /\ Delay(u) < Delay(t)

FiresNext(t) ==
  /\ t \in timers
  /\ \A u \in timers \ {t} : ~DueBefore(u, t)

\* The timer of the preload call: removeListener, reject(new Error(`RPC timeout: ${method}`)).
InnerAfterTimeout(c) == Reject(inner[c], ErrorValue("Error", "RPC timeout", None))

ListenersAfterTimeout(c) == rpcListeners \ {c}

FirePreloadTimer(t) ==
  LET c == t[1]
      newInner == InnerAfterTimeout(c)
  IN /\ FiresNext(t)
     /\ t[2] = "preload"
     /\ inner' = [inner EXCEPT ![c] = newInner]
     /\ rpcListeners' = ListenersAfterTimeout(c)
     /\ outer' = [outer EXCEPT ![c] = OuterAfterInner(c, newInner)]
     /\ timers' = TimersAfterOuter(timers \ {t}, {c})
     /\ first' = LogFirst("timer", None, {c})
     /\ UNCHANGED << requestIdCounter, calls, preloadVars, c2h, nResponses, late,
                     atDispose, atLoss, streamVars >>

\* The timer of createRpcClient.call: reject(new RpcTimeoutError(timeout)).
OuterAfterTimeout(c) == Reject(outer[c], RpcTimeoutError(calls[c].timeout))

FireRendererTimer(t) ==
  LET c == t[1]
  IN /\ FiresNext(t)
     /\ t[2] = "renderer"
     /\ outer' = [outer EXCEPT ![c] = OuterAfterTimeout(c)]
     /\ timers' = timers \ {t}
     /\ UNCHANGED << requestIdCounter, calls, rpcListeners, inner, preloadVars, c2h,
                     nResponses, first, late, atDispose, atLoss, streamVars >>

(***************************************************************************)
(* dispose() of createPreloadClient: it detaches the listeners of the      *)
(* stream and event channels, closes the active streams, clears their      *)
(* table and the event handlers; it sends nothing and touches no call's    *)
(* listener or timer.                                                      *)
(***************************************************************************)
TimersAfterDispose == timers

\* for (const controller of state.activeStreams.values()) try { controller.close() } catch {}
StreamsAfterDispose ==
  [r \in Invocations |->
     IF \E e \in activeStreams : e[2] = r THEN Close(cs[r]) ELSE cs[r]]

Dispose ==
  /\ ~disposed
  /\ disposed' = TRUE
  /\ timers' = TimersAfterDispose
  /\ cs' = StreamsAfterDispose
  /\ activeStreams' = {}
  /\ atDispose' = { c \in Issued : calls[c].api = "preload" /\ inner[c].state = "pending" }
  /\ eventHandlers' = EmptyMap
  /\ lastEv' = [NoEventCall EXCEPT !.op = "dispose"]
  /\ UNCHANGED << requestIdCounter, calls, rpcListeners, inner, outer, c2h,
                  nResponses, first, late, atLoss, hostVars, sreq, clientMicro, nDelivered,
                  eventOut, nHandlers, unsubscribers, called, invoked, subscribedEvents,
                  handlerRegistry, exposedApi >>

Next ==
  \/ \E c \in Calls, api \in {"exposed", "preload", "renderer"}, t \in Timeouts :
       IssueCall(c, api, t)
  \/ \E i \in Calls, p \in ResponsePayloads :
       /\ i <= requestIdCounter
       /\ DeliverResponse(ResponseFrame(Some(i), p.result, p.error))
  \/ \E t \in timers : FirePreloadTimer(t)
  \/ \E t \in timers : FireRendererTimer(t)
  \/ Dispose

Spec == Init /\ [][Next]_vars

(***************************************************************************)
(* Several calls pending at once: the calls are issued with the default    *)
(* timeout or with a short one, through any of the three APIs.             *)
(***************************************************************************)
NextPending ==
  \/ \E c \in Calls, api \in {"exposed", "preload", "renderer"}, t \in {None, Some(50)} :
       IssueCall(c, api, t)
  \/ \E i \in Calls, p \in ResponsePayloads :
       /\ i <= requestIdCounter
       /\ DeliverResponse(ResponseFrame(Some(i), p.result, p.error))
  \/ \E t \in timers : FirePreloadTimer(t)
  \/ \E t \in timers : FireRendererTimer(t)
  \/ Dispose

SpecPending == Init /\ [][NextPending]_vars

(***************************************************************************)
(* Connection loss.  The connection to the main process goes away while    *)
(* calls are pending.  No operation of the client observes this: the       *)
(* listeners and timers of the pending calls stay as they are, and         *)
(* RpcConnectionError (src/src/error.ts) is constructed nowhere.           *)
(***************************************************************************)
PendingEntries == { c \in Issued : inner[c].state = "pending" }

ConnectionLost ==
  /\ PendingEntries # {}
  /\ atLoss' = Some(PendingEntries)
  /\ UNCHANGED << requestIdCounter, c2h, preloadVars, calls, rpcListeners, timers, inner,
                  outer, nResponses, first, late, atDispose, streamVars >>

NextConn == Next \/ ConnectionLost

SpecConn == Init /\ [][NextConn]_vars

(***************************************************************************)
(* The host: class RpcServer.                                              *)
(***************************************************************************)
\* register(name, handler, options): the application registers a method
\* that is no stream method.
Register(name) ==
  /\ name \in PlainMethods
  /\ name \notin methods
  /\ methods' = methods \cup {name}
  /\ UNCHANGED << requestIdCounter, c2h, preloadVars, callVars, listenVars, streamIdCounter,
                  streams, hostMicro, hs, hostSent, pr, busVars, clientStreamVars >>

\* registerStream(name, handler, options): the application registers a
\* stream method.
RegisterStream(name) ==
  /\ name \in StreamMethods
  /\ name \notin methods
  /\ methods' = methods \cup {name}
  /\ UNCHANGED << requestIdCounter, c2h, preloadVars, callVars, listenVars, streamIdCounter,
                  streams, hostMicro, hs, hostSent, pr, busVars, clientStreamVars >>

\* unregister(name): methods.delete(name).
Unregister(name) ==
  /\ name \in methods
  /\ methods' = methods \ {name}
  /\ UNCHANGED << requestIdCounter, c2h, preloadVars, callVars, listenVars, streamIdCounter,
                  streams, hostMicro, hs, hostSent, pr, busVars, clientStreamVars >>

\* has(name)
has(name) == name \in methods

\* getMethodNames(), as a set.
getMethodNames == methods

\* ipcMain.on(channel, listener) and ipcMain.removeListener(channel, listener)
\* for each of the three channels.
OnAll(counts) == [ch \in Channels |-> counts[ch] + 1]
RemoveListenerAll(counts) == [ch \in Channels |-> IF counts[ch] > 0 THEN counts[ch] - 1 ELSE 0]

\* A listener of the server is attached to the channel.
Attached(ch) == ipcListeners[ch] > 0

\* A test that never finds the server listening.
AlreadyListening_Never == FALSE

\* `if (this.isListening) return` of listen().
AlreadyListening == isListening

\* `if (!this.isListening) return` of dispose().
NotListening == ~isListening

\* listen(): nothing if the server listens already; else a listener is
\* attached to each channel.
HostListen ==
  /\ lastCall' = [op |-> "listen", noop |-> AlreadyListening]
  /\ IF AlreadyListening
     THEN UNCHANGED << isListening, ipcListeners >>
     ELSE /\ ipcListeners' = OnAll(ipcListeners)
          /\ isListening' = TRUE
  /\ UNCHANGED << requestIdCounter, c2h, preloadVars, callVars, methods, streamIdCounter,
                  streams, hostMicro, hs, hostSent, pr, busVars, clientStreamVars >>

\* dispose(): nothing if the server does not listen; else the listeners are
\* removed and the tables cleared. A running executeStreamHandler is left to
\* run.
HostDispose ==
  /\ lastCall' = [op |-> "dispose", noop |-> NotListening]
  /\ IF NotListening
     THEN UNCHANGED << isListening, ipcListeners, methods, streams, busVars >>
     ELSE /\ ipcListeners' = RemoveListenerAll(ipcListeners)
          /\ isListening' = FALSE
          /\ methods' = {}
          /\ streams' = {}
          /\ eventSubscribers' = EmptyMap
          /\ published' = NoPublish
          /\ lastBus' = NoBusMessage
          /\ UNCHANGED connected
  /\ UNCHANGED << requestIdCounter, c2h, preloadVars, callVars, streamIdCounter,
                  hostMicro, hs, hostSent, pr, clientStreamVars >>

\* generateStreamId: `stream_${++streamIdCounter}_${Date.now()}`.
generateStreamId == streamIdCounter + 1

\* The frames executeStreamHandler sends for a result that is no ReadableStream.
FramesOfValue(sid, v) ==
  << createStreamChunk(sid, "chunk", Some(v)), createStreamChunk(sid, "end", None) >>

\* A read loop that leaves without an end frame.
FramesOfReadDone_Nothing(sid) == <<>>

\* The frame executeStreamHandler sends when reader.read() reports done.
FramesOfReadDone(sid) == << createStreamChunk(sid, "end", None) >>

\* The frames sent for a failed read, were the end frame sent on the way out as well.
FramesOfReadError_ThenEnd(sid) ==
  << createStreamChunk(sid, "error", Some(errorToJsonRpc(ThrownError("source failed")))),
     createStreamChunk(sid, "end", None) >>

\* The frame executeStreamHandler sends when reader.read() throws.
FramesOfReadError(sid) ==
  << createStreamChunk(sid, "error", Some(errorToJsonRpc(ThrownError("source failed")))) >>

\* The frame the catch callback of handleStreamRequest sends.
FramesOfHandlerError(sid) ==
  << createStreamChunk(sid, "error", Some(errorToJsonRpc(ThrownError("handler failed")))) >>

\* `await reader.read()`: the read is answered in a later microtask if the
\* source has a result ready, and stays pending otherwise.
ReadIssued(h, ready) == [h EXCEPT !.phase = "reading", !.readPending = ~ready]
ReadJobs(r, ready) == IF ready THEN << Job("readCont", r, None) >> ELSE <<>>

\* `request.id !== undefined && request.id !== null` fails: a notification.
Nullish(id) == id = None \/ id = Null

\* `id ?? null`
OrNull(id) == IF Nullish(id) THEN Null ELSE id

\* The response of handleStreamRequest.
StreamResponse(id, sid) == ResponseFrame(OrNull(id), Some([streamId |-> sid]), None)

\* handleStreamRequest up to its return: the stream id is minted and entered
\* in streams, executeStreamHandler runs up to its first await. o is what the
\* handler did: returned a value or a stream, threw, or returned a promise
\* still pending. The jobs are those this leaves in the microtask queue: the
\* continuation of `await handler(...)` when the handler returned, the catch
\* callback when it threw; nothing while the promise it returned is pending.
ExecutionStarted(o, sid) ==
  [NoExecution EXCEPT
     !.phase = IF o = "pending" THEN "pending"
               ELSE IF o = "throw" THEN "rejected" ELSE "awaiting",
     !.sid = sid,
     !.result = IF o = "pending" THEN "none" ELSE o]

JobsOfExecution(o, r) ==
  IF o = "pending" THEN <<>>
  ELSE IF o = "throw" THEN << Job("catch", r, None) >>
  ELSE << Job("execCont", r, None) >>

\* A check that lets the empty string pass.
IsMethodName_AcceptsEmpty(method) == method # None /\ method[1] = "string"

\* `!method || typeof method !== "string"` fails: method is a non-empty string.
IsMethodName(method) == method # None /\ method[1] = "string" /\ method[2] # ""

\* A normalisation that spreads the properties of an object.
NormalizeParams_Spread(params) == params.val

\* The argument list of processRequest: no params give the empty list, an
\* array is taken as it is, any other value becomes the only argument.
NormalizeParams(params) ==
  IF params.kind = "undefined" THEN <<>>
  ELSE IF params.kind = "array" THEN params.val
  ELSE << params >>

\* An error response that carries a result as well.
ErrorResponse_WithResult(id, error) == ResponseFrame(OrNull(id), Some("ok"), Some(error))

\* The responses of processRequest.
ErrorResponse(id, error) == ResponseFrame(OrNull(id), None, Some(error))
ResultResponse(id, result) == ResponseFrame(OrNull(id), Some(result), None)

\* The data of the InvalidParams error: the message of a thrown Error
\* instance, nothing for any other thrown value.
DataOfValidationError(e) == IF e.type = "Error" THEN e.message ELSE None

\* processRequest returns response from state p: its promise is resolved,
\* and the continuation of the await in handleMessage is queued.
Returned(r, p, response, rest) ==
  /\ pr' = [pr EXCEPT ![r] = [p EXCEPT !.phase = "done", !.response = Some(response)]]
  /\ hostMicro' = Append(rest, Job("reply", r, << response, p.id >>))
  /\ UNCHANGED << streamIdCounter, streams, hs >>

\* `await storedMethod.handler(...args)` of a method that is no stream method.
\* o is what the handler did: it threw (the catch block returns the error
\* response), returned (the continuation of the await is queued), or returned
\* a promise still pending.
CallHandler(r, p, o, t, rest) ==
  LET q == [p EXCEPT !.trace = Append(@, "handler"), !.hargs = Some(p.args)] IN
  IF o = "throw"
  THEN Returned(r, [q EXCEPT !.hres = "throw", !.throws = t],
                ErrorResponse(p.id, errorToJsonRpc(t)), rest)
  ELSE /\ pr' = [pr EXCEPT ![r] =
                   [q EXCEPT !.phase = IF o = "pending" THEN "handlerPending" ELSE "handling",
                             !.hres = IF o = "pending" THEN "none" ELSE "value"]]
       /\ hostMicro' = IF o = "pending" THEN rest ELSE Append(rest, Job("handled", r, None))
       /\ UNCHANGED << streamIdCounter, streams, hs >>

\* `return this.handleStreamRequest(...)`: the stream id is minted and
\* entered in streams, executeStreamHandler runs up to its first await.
\* processRequest returns the promise of handleStreamRequest, so its own
\* promise is resolved two microtasks later, and `await` in handleMessage
\* takes one more before the reply.
CallStreamRequest(r, p, o, rest) ==
  LET sid == generateStreamId IN
  /\ streamIdCounter' = sid
  /\ streams' = streams \cup {sid}
  /\ hs' = [hs EXCEPT ![r] = ExecutionStarted(o, sid)]
  /\ pr' = [pr EXCEPT ![r] = [p EXCEPT !.phase = "done",
                                       !.trace = @ \o << "mint", "handler" >>,
                                       !.hargs = Some(p.args),
                                       !.response = Some(StreamResponse(p.id, sid))]]
  /\ hostMicro' = rest \o JobsOfExecution(o, r)
                       \o << Job("thenable", r, << StreamResponse(p.id, sid), p.id >>) >>

\* processRequest after the validation.
Dispatch(r, p, o, t, rest) ==
  IF IsStream(p.name) THEN CallStreamRequest(r, p, o, rest) ELSE CallHandler(r, p, o, t, rest)

\* A continuation that dispatches whatever the validator did.
AfterValidation_Ignored(r, p, o, t, rest) == Dispatch(r, p, o, t, rest)

\* The continuation of `await storedMethod.validate(args)`: the InvalidParams
\* response when the validator rejected, the dispatch otherwise.
AfterValidation(r, p, o, t, rest) ==
  IF p.vres = "throw"
  THEN Returned(r, p, ErrorResponse(p.id, invalidParams(DataOfValidationError(p.throws))), rest)
  ELSE Dispatch(r, p, o, t, rest)

\* `await storedMethod.validate(args)`. v is what the validator did: it threw
\* (the catch block returns the InvalidParams response), returned, or
\* returned a promise still pending.
CallValidator(r, p, v, t, rest) ==
  LET q == [p EXCEPT !.trace = Append(@, "validate"), !.vargs = Some(p.args)] IN
  IF v = "throw"
  THEN Returned(r, [q EXCEPT !.vres = "throw", !.throws = t],
                ErrorResponse(p.id, invalidParams(DataOfValidationError(t))), rest)
  ELSE /\ pr' = [pr EXCEPT ![r] =
                   [q EXCEPT !.phase = IF v = "pending" THEN "validatorPending" ELSE "validating",
                             !.vres = IF v = "pending" THEN "none" ELSE "pass"]]
       /\ hostMicro' = IF v = "pending" THEN rest ELSE Append(rest, Job("validated", r, None))
       /\ UNCHANGED << streamIdCounter, streams, hs >>

\* handleMessage on "json-rpc": processRequest runs up to its first await or
\* its return. v and o are what the validator and the handler do when they
\* are called, t what they throw when they throw.
HostHandleMessage(v, o, t) ==
  /\ Attached(RPC_CHANNEL)
  /\ hostMicro = <<>>
  /\ c2h # <<>>
  /\ Head(c2h).ch = "rpc"
  /\ LET req == Head(c2h)
         r == req.inv
         p0 == [NoProcess EXCEPT !.phase = "entered", !.id = req.id, !.table = methods,
                                 !.sender = sreq[r].sender,
                                 !.listeners = ipcListeners[RPC_CHANNEL]]
     IN IF ~IsMethodName(req.method)
        THEN Returned(r, p0, ErrorResponse(req.id, invalidRequest), <<>>)
        ELSE LET name == req.method[2]
                 p1 == [p0 EXCEPT !.name = name, !.trace = << "lookup" >>]
                 p2 == [p1 EXCEPT !.args = NormalizeParams(req.params)]
             IN IF name \notin methods
                THEN Returned(r, p1, ErrorResponse(req.id, methodNotFound(name)), <<>>)
                ELSE IF HasValidate(name) THEN CallValidator(r, p2, v, t, <<>>)
                     ELSE Dispatch(r, p2, o, t, <<>>)
  /\ c2h' = Tail(c2h)
  /\ UNCHANGED << requestIdCounter, preloadVars, callVars, listenVars, methods, hostSent,
                  busVars, clientStreamVars >>

\* handleStreamMessage on "json-rpc-stream": end and error delete the entry.
HostHandleStreamMessage ==
  /\ Attached(STREAM_CHANNEL)
  /\ hostMicro = <<>>
  /\ c2h # <<>>
  /\ Head(c2h).ch = "stream"
  /\ streams' = IF Head(c2h).type \in {"end", "error"}
                THEN streams \ {Head(c2h).streamId} ELSE streams
  /\ c2h' = Tail(c2h)
  /\ UNCHANGED << requestIdCounter, preloadVars, callVars, listenVars, methods,
                  streamIdCounter, hostMicro, hs, hostSent, pr, busVars, clientStreamVars >>

\* A frame that arrives while the server has no listener is lost.
HostDropMessage ==
  /\ hostMicro = <<>>
  /\ c2h # <<>>
  /\ ~Attached(IF Head(c2h).ch = "rpc" THEN RPC_CHANNEL ELSE STREAM_CHANNEL)
  /\ c2h' = Tail(c2h)
  /\ UNCHANGED << requestIdCounter, preloadVars, callVars, hostVars, clientStreamVars >>

\* The promise a handler returned settles: with a value, with a stream, or
\* it rejects.
HandlerSettles(r, o) ==
  /\ hs[r].phase = "pending"
  /\ hs' = [hs EXCEPT ![r].phase = "awaiting", ![r].result = o]
  /\ hostMicro' = Append(hostMicro, Job("execCont", r, None))
  /\ UNCHANGED << requestIdCounter, c2h, preloadVars, callVars, listenVars, methods,
                  streamIdCounter, streams, hostSent, pr, busVars, clientStreamVars >>

\* The source of the ReadableStream has a result for the read that waits.
SourceProduces(r) ==
  /\ hs[r].readPending
  /\ hs' = [hs EXCEPT ![r].readPending = FALSE]
  /\ hostMicro' = Append(hostMicro, Job("readCont", r, None))
  /\ UNCHANGED << requestIdCounter, c2h, preloadVars, callVars, listenVars, methods,
                  streamIdCounter, streams, hostSent, pr, busVars, clientStreamVars >>

\* A sendChunk that sends to every window whoever sent the request.
SendChunkTargets_AllWindows(sender) == connected

\* sendChunk of handleStreamRequest: sender.send when the event of the
\* request had a sender; else wc.send for every wc of getAllWebContents(),
\* read when the frame is sent.
SendChunkTargets(sender) == IF sender # None THEN {sender[1]} ELSE connected

\* The windows the frames of invocation r were sent to, with those of n more
\* frames sent now.
SentTargets(r, n) ==
  hs[r].to \o [k \in 1..n |-> SendChunkTargets(pr[r].sender)]

\* The continuation of `await handler(...)` in executeStreamHandler: the
\* awaited promise rejected, so executeStreamHandler rejects and the catch
\* callback of handleStreamRequest is queued.
ExecContThrows(r, rest) ==
  /\ hs' = [hs EXCEPT ![r].phase = "rejected"]
  /\ hostMicro' = Append(rest, Job("catch", r, None))
  /\ UNCHANGED << streams, hostSent >>

\* ... the result is no ReadableStream: one chunk, the end frame, streams.delete.
ExecContValue(r, rest) ==
  /\ hostSent' = hostSent \o FramesOfValue(hs[r].sid, 1)
  /\ streams' = streams \ {hs[r].sid}
  /\ hs' = [hs EXCEPT ![r].phase = "done", ![r].ending = "close", ![r].to = SentTargets(r, 2)]
  /\ hostMicro' = rest

\* ... the result is a ReadableStream: getReader(), the first reader.read().
ExecContStream(r, rest, ready) ==
  /\ hs' = [hs EXCEPT ![r] = ReadIssued(hs[r], ready)]
  /\ hostMicro' = rest \o ReadJobs(r, ready)
  /\ UNCHANGED << streams, hostSent >>

\* The continuation of `await reader.read()`. res is what the read returned:
\* a value is sent as a chunk and the next read is issued; done sends the end
\* frame, a failure the error frame, and both leave through finally, which
\* deletes the entry.
ReadCont(r, rest, res, ready) ==
  LET k == hs[r].reads + 1 IN
  IF res = "value"
  THEN /\ k <= MaxItems
       /\ hostSent' = Append(hostSent, createStreamChunk(hs[r].sid, "chunk", Some(k)))
       /\ hs' = [hs EXCEPT ![r] = ReadIssued([hs[r] EXCEPT !.reads = k,
                                                          !.to = SentTargets(r, 1)], ready)]
       /\ hostMicro' = rest \o ReadJobs(r, ready)
       /\ UNCHANGED streams
  ELSE /\ hostSent' = hostSent \o (IF res = "done" THEN FramesOfReadDone(hs[r].sid)
                                   ELSE FramesOfReadError(hs[r].sid))
       /\ hs' = [hs EXCEPT ![r].phase = "done",
                           ![r].ending = IF res = "done" THEN "close" ELSE "error",
                           ![r].to = SentTargets(r, 1)]
       /\ streams' = streams \ {hs[r].sid}
       /\ hostMicro' = rest

\* A catch callback that leaves the entry of the stream where it is.
CatchCallback_KeepsEntry(r, rest) ==
  /\ hostSent' = hostSent \o FramesOfHandlerError(hs[r].sid)
  /\ hs' = [hs EXCEPT ![r].phase = "done", ![r].ending = "error", ![r].to = SentTargets(r, 1)]
  /\ hostMicro' = rest
  /\ UNCHANGED streams

\* The catch callback of handleStreamRequest: the error frame, streams.delete.
CatchCallback(r, rest) ==
  /\ hostSent' = hostSent \o FramesOfHandlerError(hs[r].sid)
  /\ streams' = streams \ {hs[r].sid}
  /\ hs' = [hs EXCEPT ![r].phase = "done", ![r].ending = "error", ![r].to = SentTargets(r, 1)]
  /\ hostMicro' = rest

\* A reply that is sent whatever the id of the request.
Reply_Always(id, response) == Append(hostSent, response)

\* The continuation of `await this.processRequest(...)` in handleMessage:
\* the reply, for a request that has an id.
Reply(id, response) ==
  IF ~Nullish(id) THEN Append(hostSent, response) ELSE hostSent

\* A continuation that looks the method up again and answers MethodNotFound
\* when the table is not the one the request found.
AfterHandler_LooksUpAgain(r, p, rest) ==
  IF methods # p.table
  THEN Returned(r, p, ErrorResponse(p.id, methodNotFound(p.name)), rest)
  ELSE IF p.hres = "throw"
       THEN Returned(r, p, ErrorResponse(p.id, errorToJsonRpc(p.throws)), rest)
       ELSE Returned(r, p, ResultResponse(p.id, "ok"), rest)

\* The continuation of `await storedMethod.handler(...args)`: the response
\* with the result, or the catch block with the error of the rejection.
AfterHandler(r, p, rest) ==
  IF p.hres = "throw"
  THEN Returned(r, p, ErrorResponse(p.id, errorToJsonRpc(p.throws)), rest)
  ELSE Returned(r, p, ResultResponse(p.id, "ok"), rest)

\* The host runs the microtask at the head of its queue. res and ready are
\* what the source of a stream does: the result of the read that returns, and
\* whether the next read finds a result ready; o is what a handler does that
\* is called after the validation, t what it throws when it throws.
RunHostMicrotask(res, ready, o, t) ==
  /\ hostMicro # <<>>
  /\ LET job == Head(hostMicro)
         rest == Tail(hostMicro)
         r == job.r
     IN CASE job.kind = "execCont" ->
               /\ IF hs[r].result = "throw" THEN ExecContThrows(r, rest)
                  ELSE IF hs[r].result = "value" THEN ExecContValue(r, rest)
                  ELSE ExecContStream(r, rest, ready)
               /\ UNCHANGED << pr, streamIdCounter >>
          [] job.kind = "readCont" ->
               ReadCont(r, rest, res, ready) /\ UNCHANGED << pr, streamIdCounter >>
          [] job.kind = "catch" ->
               CatchCallback(r, rest) /\ UNCHANGED << pr, streamIdCounter >>
          [] job.kind = "validated" ->
               AfterValidation(r, pr[r], o, t, rest) /\ UNCHANGED hostSent
          [] job.kind = "handled" ->
               AfterHandler(r, pr[r], rest) /\ UNCHANGED hostSent
          [] job.kind = "thenable" ->
               /\ hostMicro' = Append(rest, Job("resolve", r, job.arg))
               /\ UNCHANGED << streams, hs, hostSent, pr, streamIdCounter >>
          [] job.kind = "resolve" ->
               /\ hostMicro' = Append(rest, Job("reply", r, job.arg))
               /\ UNCHANGED << streams, hs, hostSent, pr, streamIdCounter >>
          [] job.kind = "reply" ->
               /\ hostSent' = Reply(job.arg[2], job.arg[1])
               /\ hostMicro' = rest
               /\ UNCHANGED << streams, hs, pr, streamIdCounter >>
  /\ UNCHANGED << requestIdCounter, c2h, preloadVars, callVars, listenVars, methods,
                  busVars, clientStreamVars >>

\* The promise a validator returned settles: it fulfils, or it rejects.
ValidatorSettles(r, v, t) ==
  /\ pr[r].phase = "validatorPending"
  /\ pr' = [pr EXCEPT ![r].phase = "validating", ![r].vres = v,
                      ![r].throws = IF v = "throw" THEN t ELSE @]
  /\ hostMicro' = Append(hostMicro, Job("validated", r, None))
  /\ UNCHANGED << requestIdCounter, c2h, preloadVars, callVars, listenVars, methods,
                  streamIdCounter, streams, hs, hostSent, busVars, clientStreamVars >>

\* The promise the handler of a method that is no stream method returned
\* settles: with a value, or it rejects.
PlainHandlerSettles(r, o, t) ==
  /\ pr[r].phase = "handlerPending"
  /\ pr' = [pr EXCEPT ![r].phase = "handling", ![r].hres = o,
                      ![r].throws = IF o = "throw" THEN t ELSE @]
  /\ hostMicro' = Append(hostMicro, Job("handled", r, None))
  /\ UNCHANGED << requestIdCounter, c2h, preloadVars, callVars, listenVars, methods,
                  streamIdCounter, streams, hs, hostSent, busVars, clientStreamVars >>

(***************************************************************************)
(* The event bus of the host.                                              *)
(***************************************************************************)
\* A window opens: its webContents is among getAllWebContents().
WindowOpens(w) ==
  /\ w \notin connected
  /\ connected' = connected \cup {w}
  /\ published' = NoPublish
  /\ lastBus' = NoBusMessage
  /\ UNCHANGED << requestIdCounter, c2h, preloadVars, callVars, listenVars, methods,
                  streamIdCounter, streams, hostMicro, hs, hostSent, pr, eventSubscribers,
                  clientStreamVars >>

\* A window closes.
WindowCloses(w) ==
  /\ w \in connected
  /\ connected' = connected \ {w}
  /\ published' = NoPublish
  /\ lastBus' = NoBusMessage
  /\ UNCHANGED << requestIdCounter, c2h, preloadVars, callVars, listenVars, methods,
                  streamIdCounter, streams, hostMicro, hs, hostSent, pr, eventSubscribers,
                  clientStreamVars >>

\* subscribeToEvent(eventName, windowId): the set is created if there is
\* none, the id added.
subscribeToEvent(map, eventName, windowId) ==
  [e \in DOMAIN map \cup {eventName} |->
     IF e = eventName
     THEN (IF e \in DOMAIN map THEN map[e] ELSE {}) \cup {windowId}
     ELSE map[e]]

\* An unsubscription that deletes the entry of the event for everyone.
unsubscribeFromEvent_DropsEntry(map, eventName, windowId) ==
  [e \in DOMAIN map \ {eventName} |-> map[e]]

\* An unsubscription that keeps the entry of an event whose set is empty.
unsubscribeFromEvent_KeepsEmpty(map, eventName, windowId) ==
  IF eventName \in DOMAIN map
  THEN [map EXCEPT ![eventName] = @ \ {windowId}]
  ELSE map

\* unsubscribeFromEvent(eventName, windowId): if there is a set, the id is
\* deleted from it, and the entry deleted when the set is empty.
unsubscribeFromEvent(map, eventName, windowId) ==
  IF eventName \in DOMAIN map
  THEN IF map[eventName] \ {windowId} = {}
       THEN [e \in DOMAIN map \ {eventName} |-> map[e]]
       ELSE [map EXCEPT ![eventName] = @ \ {windowId}]
  ELSE map

\* getEventSubscribers(): for every entry of the registry, the size of its set.
getEventSubscribers == [e \in DOMAIN eventSubscribers |-> Cardinality(eventSubscribers[e])]

\* handleEventBusMessage on "json-rpc-events": a message without sender is
\* ignored, as is a message that is neither subscribe nor unsubscribe.
handleEventBusMessage(sender, type, eventName) ==
  /\ Attached(EVENT_CHANNEL)
  /\ hostMicro = <<>>
  /\ sender # None => sender[1] \in connected
  /\ eventSubscribers' =
       IF sender = None THEN eventSubscribers
       ELSE IF type = "subscribe" THEN subscribeToEvent(eventSubscribers, eventName, sender[1])
       ELSE IF type = "unsubscribe"
            THEN unsubscribeFromEvent(eventSubscribers, eventName, sender[1])
       ELSE eventSubscribers
  /\ lastBus' = [type |-> type, eventName |-> eventName, sender |-> sender,
                 before |-> eventSubscribers]
  /\ published' = NoPublish
  /\ UNCHANGED << requestIdCounter, c2h, disposed, evVars, callVars, listenVars, methods,
                  streamIdCounter, streams, hostMicro, hs, hostSent, pr, connected,
                  clientStreamVars >>

\* webContents.getAllWebContents(): the connected windows, by ascending id.
RECURSIVE AllWebContents(_)
AllWebContents(ws) ==
  IF ws = {} THEN <<>>
  ELSE LET w == CHOOSE x \in ws : \A y \in ws : x <= y
       IN << w >> \o AllWebContents(ws \ {w})

\* The message of publish: {type: "event", eventName, data}.
EventFrame(eventName, data) ==
  [ch |-> "event", type |-> "event", eventName |-> eventName, data |-> data]

\* A loop that sends to every window.
RECURSIVE SendToSubscribed_All(_, _, _)
SendToSubscribed_All(allWindows, subscribers, message) ==
  IF allWindows = <<>> THEN <<>>
  ELSE << [to |-> Head(allWindows), frame |-> message] >>
         \o SendToSubscribed_All(Tail(allWindows), subscribers, message)

\* `for (const wc of allWindows) if (subscribers.has(wc.id)) wc.send(...)`:
\* the frames sent, in order, each with the window it is sent to.
RECURSIVE SendToSubscribed(_, _, _)
SendToSubscribed(allWindows, subscribers, message) ==
  IF allWindows = <<>> THEN <<>>
  ELSE (IF Head(allWindows) \in subscribers
        THEN << [to |-> Head(allWindows), frame |-> message] >> ELSE <<>>)
         \o SendToSubscribed(Tail(allWindows), subscribers, message)

\* publish(eventName, data): nothing without subscribers; else the message
\* is sent to the connected windows that are subscribed.
Publish(eventName, data) ==
  /\ hostMicro = <<>>
  /\ published' =
       [called |-> TRUE, eventName |-> eventName, data |-> data,
        subscribers |-> IF eventName \in DOMAIN eventSubscribers
                        THEN Some(eventSubscribers[eventName]) ELSE None,
        windows |-> connected,
        sent |-> IF eventName \notin DOMAIN eventSubscribers THEN <<>>
                 ELSE IF eventSubscribers[eventName] = {} THEN <<>>
                 ELSE SendToSubscribed(AllWebContents(connected),
                                       eventSubscribers[eventName],
                                       EventFrame(eventName, data))]
  /\ lastBus' = NoBusMessage
  /\ UNCHANGED << requestIdCounter, c2h, preloadVars, callVars, listenVars, methods,
                  streamIdCounter, streams, hostMicro, hs, hostSent, pr, eventSubscribers,
                  connected, clientStreamVars >>

NextEvents ==
  \/ HostListen
  \/ HostDispose
  \/ \E w \in Windows : WindowOpens(w)
  \/ \E w \in Windows : WindowCloses(w)
  \/ \E s \in {None} \cup { Some(w) : w \in Windows },
        type \in {"subscribe", "unsubscribe", "event"}, e \in EventNames :
       handleEventBusMessage(s, type, e) /\ UNCHANGED eventOut
  \/ \E e \in EventNames, d \in {None, Some("d")} : Publish(e, d)

SpecEvents == Init /\ [][NextEvents]_vars

(***************************************************************************)
(* The client: stream() and notify() of the preload module.                *)
(***************************************************************************)
\* stream(method, ...params): the ReadableStream is constructed and its start
\* runs up to the await: the timer is armed, the response listener
\* registered, the request sent.
ClientStream(r) ==
  /\ sreq[r].kind = "none"
  /\ \A q \in Invocations : q < r => sreq[q].kind # "none"
  /\ requestIdCounter' = generateRequestId
  /\ sreq' = [sreq EXCEPT ![r] = [kind |-> "stream", id |-> Some(generateRequestId),
                                  method |-> Str("s"), params |-> Arr(<<>>),
                                  sender |-> Some(1)]]
  /\ cs' = [cs EXCEPT ![r] = [NoStream EXCEPT !.phase = "waiting",
                                              !.callId = generateRequestId,
                                              !.listener = TRUE, !.timer = TRUE]]
  /\ c2h' = Append(c2h, RequestFrame(Some(generateRequestId), Str("s"), Arr(<<>>), r))
  /\ UNCHANGED << preloadVars, callVars, hostVars, activeStreams, clientMicro, nDelivered >>

\* notify(method, ...params) of a stream method: a request without id.
ClientNotify(r) ==
  /\ sreq[r].kind = "none"
  /\ \A q \in Invocations : q < r => sreq[q].kind # "none"
  /\ sreq' = [sreq EXCEPT ![r] = [kind |-> "notify", id |-> None, method |-> Str("s"),
                                  params |-> Arr(<<>>), sender |-> Some(1)]]
  /\ c2h' = Append(c2h, RequestFrame(None, Str("s"), Arr(<<>>), r))
  /\ UNCHANGED << requestIdCounter, preloadVars, callVars, hostVars, cs, activeStreams,
                  clientMicro, nDelivered >>

\* The response listener of stream(): response.id === callId, then
\* clearTimeout, removeListener, and resolve(streamId) or reject.
HandleMatches(r, f) == cs[r].listener /\ f.id = Some(cs[r].callId)

JobOfHandle(r, f) ==
  IF f.result # None
  THEN Job("register", r, f.result[1].streamId)
  ELSE Job("fail", r, "Not a stream method")

\* A response frame arrives on "json-rpc".
ReceiveResponse(f) ==
  LET hit == { r \in Invocations : HandleMatches(r, f) } IN
  /\ cs' = [r \in Invocations |->
              IF r \in hit
              THEN [cs[r] EXCEPT !.phase = "settled", !.listener = FALSE, !.timer = FALSE]
              ELSE cs[r]]
  /\ clientMicro' = IF hit = {} THEN clientMicro
                    ELSE Append(clientMicro, JobOfHandle(CHOOSE r \in hit : TRUE, f))
  /\ UNCHANGED activeStreams

\* controller.enqueue(v) and controller.close() throw a TypeError unless the
\* stream is readable and not closing; nothing in handleStreamChunk catches it.
ThrowsUnlessReadable(s, after) ==
  IF s.state = "readable" THEN after ELSE [after EXCEPT !.threw = TRUE]

\* state.activeStreams.get(streamKey): the entries stored under the key.
ControllerOf(streamId) == { e \in activeStreams : e[1] = streamId }

\* handleStreamChunk: a frame whose stream key has no controller is dropped.
\* controller.enqueue and controller.close throw on a stream that is not
\* readable, which ends the listener.
handleStreamChunk(f) ==
  LET found == ControllerOf(f.streamId) IN
  IF disposed THEN UNCHANGED << cs, activeStreams >>
  ELSE IF found = {}
  THEN /\ cs' = [r \in Invocations |->
                   IF cs[r].streamKey = Some(f.streamId)
                   THEN [cs[r] EXCEPT !.ignored = TRUE] ELSE cs[r]]
       /\ UNCHANGED activeStreams
  ELSE LET e == CHOOSE x \in found : TRUE
           r == e[2]
           s == [cs[r] EXCEPT !.lateHit = @ \/ cs[r].cancelled]
       IN CASE f.type = "chunk" ->
                 /\ cs' = [cs EXCEPT ![r] = ThrowsUnlessReadable(s, Enqueue(s, f.data[1]))]
                 /\ UNCHANGED activeStreams
            [] f.type = "end" ->
                 /\ cs' = [cs EXCEPT ![r] =
                             ThrowsUnlessReadable(s, [Close(s) EXCEPT !.term = "end"])]
                 /\ activeStreams' = activeStreams \ {e}
            [] f.type = "error" ->
                 /\ cs' = [cs EXCEPT ![r] =
                             [ErrorStream(s, IF f.error # None THEN f.error[1].message
                                             ELSE "Stream error")
                                EXCEPT !.term = "error"]]
                 /\ activeStreams' = activeStreams \ {e}

\* The client receives the next frame the host sent.
ClientReceive ==
  /\ clientMicro = <<>>
  /\ nDelivered < Len(hostSent)
  /\ nDelivered' = nDelivered + 1
  /\ LET f == hostSent[nDelivered + 1]
     IN IF f.ch = "rpc"
        THEN ReceiveResponse(f)
        ELSE handleStreamChunk(f) /\ UNCHANGED clientMicro
  /\ UNCHANGED << requestIdCounter, c2h, preloadVars, callVars, hostVars, sreq >>

\* A timer that rejects and leaves the response listener in place.
StreamTimeout_KeepsListener(r) ==
  /\ clientMicro = <<>>
  /\ cs[r].timer
  /\ cs' = [cs EXCEPT ![r].phase = "settled", ![r].timer = FALSE]
  /\ clientMicro' = Append(clientMicro, Job("fail", r, "Stream timeout"))
  /\ UNCHANGED << requestIdCounter, c2h, preloadVars, callVars, hostVars, sreq,
                  activeStreams, nDelivered >>

\* The timer of the wait for the handle: removeListener, reject(new Error("Stream timeout")).
StreamTimeout(r) ==
  /\ clientMicro = <<>>
  /\ cs[r].timer
  /\ cs' = [cs EXCEPT ![r].phase = "settled", ![r].timer = FALSE, ![r].listener = FALSE]
  /\ clientMicro' = Append(clientMicro, Job("fail", r, "Stream timeout"))
  /\ UNCHANGED << requestIdCounter, c2h, preloadVars, callVars, hostVars, sreq,
                  activeStreams, nDelivered >>

\* The continuation of the await in start: the controller is stored under the
\* stream key; or the catch block: controller.error(error).
RunClientMicrotask ==
  /\ clientMicro # <<>>
  /\ clientMicro' = Tail(clientMicro)
  /\ LET job == Head(clientMicro)
         r == job.r
     IN IF job.kind = "register"
        THEN /\ cs' = [cs EXCEPT ![r].phase = "registered", ![r].streamKey = Some(job.arg)]
             /\ activeStreams' = activeStreams \cup {<< job.arg, r >>}
        ELSE /\ cs' = [cs EXCEPT ![r] = [ErrorStream(cs[r], job.arg)
                                           EXCEPT !.phase = "failed"]]
             /\ UNCHANGED activeStreams
  /\ UNCHANGED << requestIdCounter, c2h, preloadVars, callVars, hostVars, sreq, nDelivered >>

\* The consumer reads: the next queued value; or the end of a closed stream;
\* or the error of an errored one.
ConsumerRead(r) ==
  LET s == cs[r] IN
  /\ s.phase # "none"
  /\ s.seen = "open"
  /\ s.queue # <<>> \/ s.state \in {"closed", "errored"}
  /\ cs' = [cs EXCEPT ![r] =
              IF s.queue # <<>>
              THEN [s EXCEPT !.got = Append(@, Head(s.queue)),
                             !.queue = Tail(@),
                             !.state = IF @ = "closing" /\ Len(s.queue) = 1
                                       THEN "closed" ELSE @]
              ELSE [s EXCEPT !.seen = IF s.state = "closed" THEN "done" ELSE "thrown"]]
  /\ UNCHANGED << requestIdCounter, c2h, preloadVars, callVars, hostVars, sreq,
                  activeStreams, clientMicro, nDelivered >>

\* The consumer cancels: the stream closes and drops its queue; the cancel
\* callback, if the stream key is set, deletes the entry and sends an end
\* frame upstream.
ConsumerCancel(r) ==
  LET s == cs[r] IN
  /\ s.phase # "none"
  /\ s.seen = "open"
  /\ ~s.cancelled
  /\ s.state \in {"readable", "closing"}
  /\ cs' = [cs EXCEPT ![r] = [s EXCEPT !.state = "closed", !.queue = <<>>,
                                       !.cancelled = TRUE,
                                       !.cancelSent = s.streamKey # None]]
  /\ activeStreams' = IF s.streamKey # None
                      THEN activeStreams \ {<< s.streamKey[1], r >>} ELSE activeStreams
  /\ c2h' = IF s.streamKey # None
            THEN Append(c2h, createStreamChunk(s.streamKey[1], "end", None)) ELSE c2h
  /\ UNCHANGED << requestIdCounter, preloadVars, callVars, hostVars, sreq, clientMicro,
                  nDelivered >>

\* The values a stream of the client holds or has handed to its consumer.
Held(r) == Len(cs[r].got) + Len(cs[r].queue)

\* The value of the next chunk of stream id sid: the host numbers the values
\* the client has taken of a stream.
ChunkNumber(sid) == IF sid \in StreamSlots THEN Held(sid) + 1 ELSE 1

\* The frames a host may send to the client: the response to call i, with
\* the stream id i or with an error, and any frame of any stream id, one of
\* which no response ever carries.
AnyFrames ==
  { ResponseFrame(Some(i), Some([streamId |-> i]), None) : i \in StreamSlots } \cup
  { ResponseFrame(Some(i), None, Some(e)) : i \in StreamSlots, e \in WireErrors } \cup
  { createStreamChunk(sid, "chunk", Some(ChunkNumber(sid))) : sid \in 1..(MaxStreams + 1) } \cup
  { createStreamChunk(sid, type, None) : sid \in 1..(MaxStreams + 1), type \in {"end", "error"} }

\* A frame arrives at the client from a host that may send anything, in any
\* order. A stream holds at most MaxItems values.
DeliverAny(f) ==
  /\ clientMicro = <<>>
  /\ (f.ch = "stream" /\ f.type = "chunk") => f.data[1] <= MaxItems
  /\ IF f.ch = "rpc"
     THEN ReceiveResponse(f)
     ELSE handleStreamChunk(f) /\ UNCHANGED clientMicro
  /\ UNCHANGED << requestIdCounter, c2h, preloadVars, callVars, hostVars, sreq, nDelivered >>

NextClient ==
  \/ \E r \in StreamSlots : ClientStream(r)
  \/ \E f \in AnyFrames : DeliverAny(f)
  \/ \E r \in StreamSlots : StreamTimeout(r)
  \/ RunClientMicrotask
  \/ \E r \in StreamSlots : ConsumerRead(r)
  \/ \E r \in StreamSlots : ConsumerCancel(r)
  \/ Dispose

SpecClient == Init /\ [][NextClient]_vars

NextStream ==
  \/ RegisterStream("s")
  \/ HostListen
  \/ HostDispose
  \/ \E o \in HandlerOutcomes \cup {"pending"} :
       HostHandleMessage("pass", o, ThrownError("handler failed"))
  \/ HostHandleStreamMessage
  \/ HostDropMessage
  \/ \E r \in StreamSlots, o \in HandlerOutcomes : HandlerSettles(r, o)
  \/ \E r \in StreamSlots : SourceProduces(r)
  \/ \E res \in ReadResults, ready \in BOOLEAN : RunHostMicrotask(res, ready, "value", ThrownString)
  \/ \E r \in StreamSlots : ClientStream(r)
  \/ \E r \in StreamSlots : ClientNotify(r)
  \/ ClientReceive
  \/ \E r \in StreamSlots : StreamTimeout(r)
  \/ RunClientMicrotask
  \/ \E r \in StreamSlots : ConsumerRead(r)
  \/ \E r \in StreamSlots : ConsumerCancel(r)

SpecStream == Init /\ [][NextStream]_vars

(***************************************************************************)
(* The host alone: the client only sends requests and never receives.      *)
(***************************************************************************)
NextHost ==
  \/ RegisterStream("s")
  \/ HostListen
  \/ HostDispose
  \/ \E o \in HandlerOutcomes \cup {"pending"} :
       HostHandleMessage("pass", o, ThrownError("handler failed"))
  \/ HostDropMessage
  \/ \E r \in StreamSlots, o \in HandlerOutcomes : HandlerSettles(r, o)
  \/ \E r \in StreamSlots : SourceProduces(r)
  \/ \E res \in ReadResults, ready \in BOOLEAN : RunHostMicrotask(res, ready, "value", ThrownString)
  \/ \E r \in StreamSlots : ClientStream(r)
  \/ \E r \in StreamSlots : ClientNotify(r)

SpecHost == Init /\ [][NextHost]_vars

(***************************************************************************)
(* The targets of stream frames: calls of the stream method arrive in      *)
(* events with and without a sender while windows open and close.          *)
(***************************************************************************)
Senders == {None} \cup { Some(w) : w \in Windows }

\* A call of the stream method "s" arrives in an event whose sender is
\* sender.
StreamCallArrives(r, sender) ==
  /\ sreq[r].kind = "none"
  /\ \A q \in Invocations : q < r => sreq[q].kind # "none"
  /\ sreq' = [sreq EXCEPT ![r] = [kind |-> "stream", id |-> Some(r), method |-> Str("s"),
                                  params |-> Arr(<<>>), sender |-> sender]]
  /\ c2h' = Append(c2h, RequestFrame(Some(r), Str("s"), Arr(<<>>), r))
  /\ UNCHANGED << requestIdCounter, preloadVars, callVars, hostVars, cs, activeStreams,
                  clientMicro, nDelivered >>

NextFanout ==
  \/ RegisterStream("s")
  \/ HostListen
  \/ HostDispose
  \/ \E w \in Windows : WindowOpens(w)
  \/ \E w \in Windows : WindowCloses(w)
  \/ \E r \in StreamSlots, sender \in Senders : StreamCallArrives(r, sender)
  \/ \E o \in HandlerOutcomes :
       HostHandleMessage("pass", o, ThrownError("handler failed"))
  \/ HostDropMessage
  \/ \E r \in StreamSlots : SourceProduces(r)
  \/ \E res \in ReadResults, ready \in BOOLEAN : RunHostMicrotask(res, ready, "value", ThrownString)

SpecFanout == Init /\ [][NextFanout]_vars

(***************************************************************************)
(* The dispatch of requests: a renderer sends any frame on "json-rpc", the *)
(* application registers a plain and a stream method with a validator      *)
(* ("s" is never registered). The handlers of stream methods return plain  *)
(* values here.                                                            *)
(***************************************************************************)
RequestIds(r) == { None, Null, Some(r) }
RequestMethods ==
  { None, Str(""), NotAString, Str("s"), Str("m"), Str("sv") }
RequestParams == { Undefined, Arr(<< Num(1), Num(2) >>), Obj(<< Num(1) >>) }

\* ipcRenderer.send("json-rpc", request): the frame reaches handleMessage as
\* the renderer built it.
RendererSends(r, id, method, params) ==
  /\ sreq[r].kind = "none"
  /\ \A q \in Invocations : q < r => sreq[q].kind # "none"
  /\ sreq' = [sreq EXCEPT ![r] = [kind |-> "request", id |-> id, method |-> method,
                                  params |-> params, sender |-> Some(1)]]
  /\ c2h' = Append(c2h, RequestFrame(id, method, params, r))
  /\ UNCHANGED << requestIdCounter, preloadVars, callVars, hostVars, cs, activeStreams,
                  clientMicro, nDelivered >>

NextDispatch ==
  \/ Register("m")
  \/ RegisterStream("sv")
  \/ HostListen
  \/ HostDispose
  \/ \E r \in StreamSlots :
       \E id \in RequestIds(r), m \in RequestMethods, p \in RequestParams :
         RendererSends(r, id, m, p)
  \/ \E v \in ValidatorOutcomes \cup {"pending"}, o \in {"value", "throw", "pending"},
        t \in ThrownValues : HostHandleMessage(v, o, t)
  \/ HostDropMessage
  \/ \E r \in StreamSlots, v \in ValidatorOutcomes, t \in ThrownValues :
       ValidatorSettles(r, v, t)
  \/ \E r \in StreamSlots, o \in {"value", "throw"}, t \in ThrownValues :
       PlainHandlerSettles(r, o, t)
  \/ \E r \in StreamSlots, o \in {"value", "throw"} : HandlerSettles(r, o)
  \/ \E o \in {"value", "throw", "pending"}, t \in ThrownValues :
       RunHostMicrotask("done", TRUE, o, t)

SpecDispatch == Init /\ [][NextDispatch]_vars

(***************************************************************************)
(* The method table changes during a dispatch: a renderer calls "m" or     *)
(* "sv"; the application sets the table up before the request is handled,  *)
(* and registers and unregisters other methods while processRequest is     *)
(* suspended in the validator or the handler of the called one.            *)
(***************************************************************************)
\* processRequest of slot r waits for the promise of its validator or handler.
Suspended(r) == pr[r].phase \in {"validatorPending", "handlerPending"}

\* No request has been handled yet.
Untouched == \A r \in StreamSlots : pr[r].phase = "none"

\* The application changes the entry of name: before any dispatch, or during
\* the suspended dispatch of another method.
MayChange(name) ==
  Untouched \/ \E r \in StreamSlots : Suspended(r) /\ pr[r].name # name

NextRegistry ==
  \/ \E name \in PlainMethods : MayChange(name) /\ Register(name)
  \/ \E name \in StreamMethods : MayChange(name) /\ RegisterStream(name)
  \/ \E name \in PlainMethods \cup StreamMethods \cup {HEALTH_CHECK_METHOD} :
       MayChange(name) /\ Unregister(name)
  \/ HostListen
  \/ \E r \in StreamSlots, m \in {Str("m"), Str("sv")} :
       RendererSends(r, Some(r), m, Undefined)
  \/ \E v \in ValidatorOutcomes \cup {"pending"}, o \in {"value", "throw", "pending"} :
       HostHandleMessage(v, o, ThrownError("failed"))
  \/ \E r \in StreamSlots, v \in ValidatorOutcomes :
       ValidatorSettles(r, v, ThrownError("invalid"))
  \/ \E r \in StreamSlots, o \in {"value", "throw"} :
       PlainHandlerSettles(r, o, ThrownError("failed"))
  \/ \E r \in StreamSlots, o \in {"value", "throw"} : HandlerSettles(r, o)
  \/ \E o \in {"value", "throw", "pending"} :
       RunHostMicrotask("done", TRUE, o, ThrownError("failed"))

SpecRegistry == Init /\ [][NextRegistry]_vars

(***************************************************************************)
(* Correlation ids: the renderer issues calls and opens streams through    *)
(* one preload module, the calls are answered or time out, the waits for   *)
(* the stream handles time out; the host, which has the stream method "s"  *)
(* and no method "m", handles the frames and mints the stream ids.         *)
(***************************************************************************)
\* handleMessage for the frame of a call of a method that is not registered:
\* processRequest returns the MethodNotFound response, the reply is queued.
HostHandlesCallFrame ==
  /\ Attached(RPC_CHANNEL)
  /\ hostMicro = <<>>
  /\ c2h # <<>>
  /\ Head(c2h).ch = "rpc"
  /\ Head(c2h).inv \notin Invocations
  /\ Head(c2h).method[2] \notin methods
  /\ hostMicro' = << Job("reply", 0,
                         << ErrorResponse(Head(c2h).id, methodNotFound(Head(c2h).method[2])),
                            Head(c2h).id >>) >>
  /\ c2h' = Tail(c2h)
  /\ UNCHANGED << requestIdCounter, preloadVars, callVars, listenVars, methods,
                  streamIdCounter, streams, hs, hostSent, pr, busVars, clientStreamVars >>

\* The ids the preload module may have issued.
IssuedIds == 1..(MaxCalls + MaxStreams + 1)

NextIds ==
  \/ \E c \in Calls : IssueCall(c, "exposed", None)
  \/ \E r \in Invocations : ClientStream(r)
  \/ \E i \in IssuedIds :
       /\ i <= requestIdCounter
       /\ DeliverResponse(ResponseFrame(Some(i), None, Some(methodNotFound("m"))))
  \/ \E t \in timers : FirePreloadTimer(t)
  \/ \E r \in Invocations : StreamTimeout(r)
  \/ RunClientMicrotask
  \/ RegisterStream("s")
  \/ HostListen
  \/ /\ c2h # <<>>
     /\ Head(c2h).inv \in Invocations
     /\ HostHandleMessage("pass", "value", ThrownString)
  \/ HostHandlesCallFrame
  \/ HostDropMessage
  \/ RunHostMicrotask("done", TRUE, "value", ThrownString)

SpecIds == Init /\ [][NextIds]_vars

(***************************************************************************)
(* The life cycle of the server: the application registers and unregisters *)
(* methods and calls listen() and dispose() in any order, while windows    *)
(* subscribe to events and renderers call the stream method "s" and the    *)
(* health check.                                                           *)
(***************************************************************************)
NextLifecycle ==
  \/ Register("m")
  \/ RegisterStream("s")
  \/ \E name \in {"m", "s", HEALTH_CHECK_METHOD} : Unregister(name)
  \/ HostListen
  \/ HostDispose
  \/ \E w \in Windows : WindowOpens(w)
  \/ \E w \in Windows, type \in {"subscribe", "unsubscribe"} :
       handleEventBusMessage(Some(w), type, "a") /\ UNCHANGED eventOut
  \/ \E r \in StreamSlots, m \in {Str("s"), Str(HEALTH_CHECK_METHOD)} :
       RendererSends(r, Some(r), m, Undefined)
  \/ HostHandleMessage("pass", "value", ThrownString)
  \/ HostDropMessage
  \/ RunHostMicrotask("done", TRUE, "value", ThrownString)

SpecLifecycle == Init /\ [][NextLifecycle]_vars

(***************************************************************************)
(* The event API of the preload module: on, off and once of the object     *)
(* exposeRpcApi exposes ("exposed") and of createPreloadClient ("client"). *)
(* Both work on state.eventHandlers of the module.  A handler is the       *)
(* function the set holds: the callback itself for on, a wrapper made by   *)
(* the k-th call for once.  try tells whether the wrapper removes itself   *)
(* in a finally block, bus whether its callback is the wrapper that once   *)
(* of createEventBus made.  Callbacks do not call the API themselves.      *)
(***************************************************************************)
Handler(cb, once, k, try, bus) == [cb |-> cb, once |-> once, k |-> k, try |-> try, bus |-> bus]

\* The function on adds to the set: the callback.
Plain(cb) == Handler(cb, FALSE, 0, FALSE, FALSE)

\* The messages subscribeToEvent and unsubscribeFromEvent of preload.ts send.
SubscribeMessage(eventName) == [type |-> "subscribe", eventName |-> eventName]
UnsubscribeMessage(eventName) == [type |-> "unsubscribe", eventName |-> eventName]

\* state.eventHandlers.get(eventName), the empty set standing for undefined.
HandlersOf(map, eventName) == IF eventName \in DOMAIN map THEN map[eventName] ELSE {}

\* map.set(eventName, handlers) and map.delete(eventName)
SetEntry(map, eventName, handlers) ==
  [e \in DOMAIN map \cup {eventName} |-> IF e = eventName THEN handlers ELSE map[e]]
DeleteEntry(map, eventName) == [e \in DOMAIN map \ {eventName} |-> map[e]]

\* `if (!has(eventName)) { set(eventName, new Set()); subscribeToEvent(...) }`,
\* then `get(eventName).add(handler)`: the table, and the messages sent.
AddHandler(map, eventName, h) == SetEntry(map, eventName, HandlersOf(map, eventName) \cup {h})

\* A subscription that is announced with every handler.
SentByAdd_Always(map, eventName) == << SubscribeMessage(eventName) >>

SentByAdd(map, eventName) ==
  IF eventName \in DOMAIN map THEN <<>> ELSE << SubscribeMessage(eventName) >>

\* `if (handlers) { handlers.delete(h); if (handlers.size === 0) { delete(eventName);
\* unsubscribeFromEvent(...) } }`: the table, and the messages sent.
RemoveHandler(map, eventName, h) ==
  IF eventName \notin DOMAIN map THEN map
  ELSE IF map[eventName] \ {h} = {} THEN DeleteEntry(map, eventName)
  ELSE SetEntry(map, eventName, map[eventName] \ {h})

SentByRemove(map, eventName, h) ==
  IF eventName \in DOMAIN map /\ map[eventName] \ {h} = {}
  THEN << UnsubscribeMessage(eventName) >> ELSE <<>>

\* The unsubscribe function the k-th call, on(eventName, cb), returned.
Unsubscriber(k, eventName, cb, bus) == [k |-> k, eventName |-> eventName, cb |-> cb, bus |-> bus]

\* on(eventName, callback), the same in both APIs.
ClientOn(eventName, cb) ==
  /\ nHandlers < MaxHandlers
  /\ nHandlers' = nHandlers + 1
  /\ eventHandlers' = AddHandler(eventHandlers, eventName, Plain(cb))
  /\ eventOut' = eventOut \o SentByAdd(eventHandlers, eventName)
  /\ unsubscribers' = unsubscribers \cup {Unsubscriber(nHandlers + 1, eventName, cb, FALSE)}
  /\ lastEv' = [op |-> "on", eventName |-> eventName, cb |-> cb, again |-> FALSE]
  /\ UNCHANGED << requestIdCounter, c2h, disposed, callVars, streamVars, called, invoked,
                  subscribedEvents, handlerRegistry, exposedApi >>

\* The function on returned is called.
ClientUnsubscribe(u) ==
  /\ u \in unsubscribers
  /\ ~u.bus
  /\ eventHandlers' = RemoveHandler(eventHandlers, u.eventName, Plain(u.cb))
  /\ eventOut' = eventOut \o SentByRemove(eventHandlers, u.eventName, Plain(u.cb))
  /\ called' = called \cup {u.k}
  /\ lastEv' = [op |-> "unsubscribe", eventName |-> u.eventName, cb |-> u.cb,
                again |-> u.k \in called]
  /\ UNCHANGED << requestIdCounter, c2h, disposed, callVars, streamVars, nHandlers,
                  unsubscribers, invoked, subscribedEvents, handlerRegistry, exposedApi >>

\* off(eventName, callback): nothing without handlers of the event.
ClientOff(eventName, cb) ==
  /\ eventHandlers' = RemoveHandler(eventHandlers, eventName, Plain(cb))
  /\ eventOut' = eventOut \o SentByRemove(eventHandlers, eventName, Plain(cb))
  /\ lastEv' = [op |-> "off", eventName |-> eventName, cb |-> cb, again |-> FALSE]
  /\ UNCHANGED << requestIdCounter, c2h, disposed, callVars, streamVars, nHandlers,
                  unsubscribers, called, invoked, subscribedEvents, handlerRegistry,
                  exposedApi >>

\* off(eventName): nothing without handlers of the event; else the entry is
\* deleted and the unsubscription sent.
ClientOffAll(eventName) ==
  /\ eventHandlers' = DeleteEntry(eventHandlers, eventName)
  /\ eventOut' = IF eventName \in DOMAIN eventHandlers
                 THEN Append(eventOut, UnsubscribeMessage(eventName)) ELSE eventOut
  /\ lastEv' = [op |-> "offAll", eventName |-> eventName, cb |-> "", again |-> FALSE]
  /\ UNCHANGED << requestIdCounter, c2h, disposed, callVars, streamVars, nHandlers,
                  unsubscribers, called, invoked, subscribedEvents, handlerRegistry,
                  exposedApi >>

\* The wrapper once makes: in the exposed API it calls the callback in a try
\* block and removes itself in the finally block; in createPreloadClient it
\* calls the callback and then removes itself.
OnceWrapper(api, cb, k) == Handler(cb, TRUE, k, api = "exposed", FALSE)

\* once(eventName, callback)
ClientOnce(api, eventName, cb) ==
  /\ nHandlers < MaxHandlers
  /\ nHandlers' = nHandlers + 1
  /\ eventHandlers' = AddHandler(eventHandlers, eventName, OnceWrapper(api, cb, nHandlers + 1))
  /\ eventOut' = eventOut \o SentByAdd(eventHandlers, eventName)
  /\ lastEv' = [op |-> "once", eventName |-> eventName, cb |-> cb, again |-> FALSE]
  /\ UNCHANGED << requestIdCounter, c2h, disposed, callVars, streamVars, unsubscribers,
                  called, invoked, subscribedEvents, handlerRegistry, exposedApi >>

\* The wrappers of once that remove themselves when the event is delivered
\* and the callbacks in throwing throw: all that ran their removal.
Leaving(handlers, throwing) == { h \in handlers : h.once /\ (h.try \/ h.cb \notin throwing) }

\* unregisterHandler(eventName, handler) of createEventBus, for each handler
\* in cbs: nothing without an entry; else the handlers are deleted, and the
\* entry and the name in subscribedEvents with them when none is left.
UnregisterAll(registry, eventName, cbs) ==
  IF eventName \notin DOMAIN registry THEN registry
  ELSE IF registry[eventName] \ cbs = {} THEN DeleteEntry(registry, eventName)
  ELSE SetEntry(registry, eventName, registry[eventName] \ cbs)

SubscribedAfterUnregister(registry, subscribed, eventName, cbs) ==
  IF eventName \in DOMAIN registry /\ registry[eventName] \ cbs = {}
  THEN subscribed \ {eventName} ELSE subscribed

\* handleEventBusMessage of preload.ts for a message of type "event": every
\* handler of the event is called, what it throws is caught and logged. The
\* callbacks in throwing throw. A message that finds the listener detached
\* reaches nobody.
ClientReceivesEvent(eventName, throwing) ==
  LET handlers == HandlersOf(eventHandlers, eventName)
      leaving == Leaving(handlers, throwing)
      byBus == { h.cb : h \in { x \in handlers : x.bus } }
  IN /\ ~disposed
     /\ eventHandlers' = IF leaving = {} THEN eventHandlers
                         ELSE IF handlers \ leaving = {} THEN DeleteEntry(eventHandlers, eventName)
                         ELSE SetEntry(eventHandlers, eventName, handlers \ leaving)
     /\ eventOut' = IF leaving # {} /\ handlers \ leaving = {}
                    THEN Append(eventOut, UnsubscribeMessage(eventName)) ELSE eventOut
     /\ invoked' = [k \in 1..MaxHandlers |->
                      IF \E h \in handlers : h.once /\ h.k = k
                      THEN (IF invoked[k] < 2 THEN invoked[k] + 1 ELSE 2)
                      ELSE invoked[k]]
     /\ handlerRegistry' = UnregisterAll(handlerRegistry, eventName, byBus)
     /\ subscribedEvents' =
          SubscribedAfterUnregister(handlerRegistry, subscribedEvents, eventName, byBus)
     /\ lastEv' = [op |-> "event", eventName |-> eventName, cb |-> "", again |-> FALSE]
     /\ UNCHANGED << requestIdCounter, c2h, disposed, callVars, streamVars, nHandlers,
                     unsubscribers, called, exposedApi >>

\* state.ipcRenderer is set by the first init and cleared by nothing: it is
\* set in every state after construction.
Initialized == TRUE

\* createPreloadClient(ipcRenderer) once more: init returns at its first
\* test when the module is initialized, else it attaches the listeners.
CreatePreloadClient ==
  /\ IF Initialized THEN UNCHANGED disposed ELSE disposed' = FALSE
  /\ lastEv' = [NoEventCall EXCEPT !.op = "create"]
  /\ UNCHANGED << requestIdCounter, c2h, callVars, streamVars, eventHandlers, eventOut,
                  nHandlers, unsubscribers, called, invoked, subscribedEvents,
                  handlerRegistry, exposedApi >>

\* The window of the client, and the host taking the next message of the
\* client from "json-rpc-events".
ClientWindow == 1

HostReceivesBusMessage ==
  /\ eventOut # <<>>
  /\ eventOut' = Tail(eventOut)
  /\ handleEventBusMessage(Some(ClientWindow), Head(eventOut).type, Head(eventOut).eventName)

\* The event API in use: the host listens and the window of the client is
\* open before the client subscribes.
NextPreloadEvents ==
  \/ HostListen
  \/ WindowOpens(ClientWindow)
  \/ /\ isListening /\ ClientWindow \in connected
     /\ \/ \E e \in EventNames, cb \in Callbacks : ClientOn(e, cb)
        \/ \E api \in {"exposed", "client"}, e \in EventNames, cb \in Callbacks :
             ClientOnce(api, e, cb)
        \/ \E u \in unsubscribers : ClientUnsubscribe(u)
        \/ \E e \in EventNames, cb \in Callbacks : ClientOff(e, cb)
        \/ \E e \in EventNames : ClientOffAll(e)
        \/ \E e \in EventNames, throwing \in SUBSET Callbacks : ClientReceivesEvent(e, throwing)
        \/ Dispose
        \/ CreatePreloadClient
  \/ HostReceivesBusMessage

SpecPreloadEvents == Init /\ [][NextPreloadEvents]_vars

\* The event API alone: nobody takes the messages the client sends.
NextEventApi ==
  \/ \E e \in EventNames, cb \in Callbacks : ClientOn(e, cb)
  \/ \E api \in {"exposed", "client"}, e \in EventNames, cb \in Callbacks :
       ClientOnce(api, e, cb)
  \/ \E u \in unsubscribers : ClientUnsubscribe(u)
  \/ \E e \in EventNames, cb \in Callbacks : ClientOff(e, cb)
  \/ \E e \in EventNames : ClientOffAll(e)
  \/ \E e \in EventNames, throwing \in SUBSET Callbacks : ClientReceivesEvent(e, throwing)
  \/ Dispose

SpecEventApi == Init /\ [][NextEventApi]_vars

(***************************************************************************)
(* exposeRpcApi: the object the renderer gets.  With a non-empty methods   *)
(* list it is the object of createApiObject with one more property per     *)
(* listed name, a shortcut for call(name, ...); the generic call, notify   *)
(* and stream stay on it.                                                  *)
(***************************************************************************)
\* The method names the renderer may try.
MethodNames == {"m", "secret"}

\* The methods lists of the preload script: none, or a whitelist.
Whitelists == {{}, {"m"}}

\* createApiObject(ipcRenderer): the properties of the object.
createApiObject == {"call", "notify", "stream", "on", "off", "once"}

\* createWhitelistApi(methods, ipcRenderer): createApiObject plus the shortcuts.
createWhitelistApi(whitelist) == createApiObject \cup whitelist

\* exposeRpcApi({contextBridge, ipcRenderer, methods}): the object is bound to
\* the name once; the listeners were attached when the module was set up.
ExposeRpcApi(whitelist) ==
  /\ exposedApi = None
  /\ exposedApi' = Some([methods |-> whitelist,
                         api |-> IF whitelist # {} THEN createWhitelistApi(whitelist)
                                 ELSE createApiObject])
  /\ UNCHANGED << requestIdCounter, c2h, disposed, eventHandlers, eventOut, nHandlers,
                  unsubscribers, called, invoked, lastEv, subscribedEvents,
                  handlerRegistry, callVars, streamVars >>

\* The renderer has the object and it has the property.
Exposes(property) == exposedApi # None /\ property \in exposedApi[1].api

\* window.rpc.call(method, ...params)
ExposedCall(c, method) ==
  /\ Exposes("call")
  /\ IssueCallOf(c, "exposed", None, method)

\* window.rpc[name](...args) of a shortcut: callFn(name, ...args)
ExposedShortcut(c, name) ==
  /\ exposedApi # None
  /\ name \in exposedApi[1].methods
  /\ Exposes(name)
  /\ IssueCallOf(c, "exposed", None, name)

\* window.rpc.notify(method, ...params): a request frame without id. At most
\* MaxCalls frames are sent.
ExposedNotify(method) ==
  /\ Exposes("notify")
  /\ Len(c2h) < MaxCalls
  /\ c2h' = Append(c2h, RequestFrame(None, Str(method), Arr(<<>>), 0))
  /\ UNCHANGED << requestIdCounter, preloadVars, callVars, streamVars >>

NextExposed ==
  \/ \E whitelist \in Whitelists : ExposeRpcApi(whitelist)
  \/ \E c \in Calls, method \in MethodNames : ExposedCall(c, method)
  \/ \E c \in Calls, name \in MethodNames : ExposedShortcut(c, name)
  \/ \E method \in MethodNames : ExposedNotify(method)
  \/ \E i \in Calls, p \in ResponsePayloads :
       /\ i <= requestIdCounter
       /\ DeliverResponse(ResponseFrame(Some(i), p.result, p.error))
  \/ \E t \in timers : FirePreloadTimer(t)

SpecExposed == Init /\ [][NextExposed]_vars

(***************************************************************************)
(* createEventBus of the renderer (src/src/renderer/event.ts) over the     *)
(* exposed API, with debugging off: getWrappedHandler returns the handler  *)
(* itself.  The bus keeps handlerRegistry and subscribedEvents next to the *)
(* table of the preload module.                                            *)
(***************************************************************************)
\* registerHandler(eventName, handler)
RegistryAfterRegister(registry, eventName, cb) ==
  SetEntry(registry, eventName, HandlersOf(registry, eventName) \cup {cb})

\* The wrapper once of the bus hands to api.once, inside the wrapper of the
\* exposed API: it calls the handler and unregisters it in a finally block.
BusOnceWrapper(cb, k) == Handler(cb, TRUE, k, TRUE, TRUE)

\* on(eventName, callback) of the bus: registerHandler, then api.on.
BusOn(eventName, cb) ==
  /\ nHandlers < MaxHandlers
  /\ nHandlers' = nHandlers + 1
  /\ handlerRegistry' = RegistryAfterRegister(handlerRegistry, eventName, cb)
  /\ subscribedEvents' = subscribedEvents \cup {eventName}
  /\ eventHandlers' = AddHandler(eventHandlers, eventName, Plain(cb))
  /\ eventOut' = eventOut \o SentByAdd(eventHandlers, eventName)
  /\ unsubscribers' = unsubscribers \cup {Unsubscriber(nHandlers + 1, eventName, cb, TRUE)}
  /\ lastEv' = [op |-> "on", eventName |-> eventName, cb |-> cb, again |-> FALSE]
  /\ UNCHANGED << requestIdCounter, c2h, disposed, callVars, streamVars, called, invoked,
                  exposedApi >>

\* The function on of the bus returned: unsubscribe() of the API, then
\* unregisterHandler(name, handler).
BusUnsubscribe(u) ==
  /\ u \in unsubscribers
  /\ u.bus
  /\ eventHandlers' = RemoveHandler(eventHandlers, u.eventName, Plain(u.cb))
  /\ eventOut' = eventOut \o SentByRemove(eventHandlers, u.eventName, Plain(u.cb))
  /\ handlerRegistry' = UnregisterAll(handlerRegistry, u.eventName, {u.cb})
  /\ subscribedEvents' =
       SubscribedAfterUnregister(handlerRegistry, subscribedEvents, u.eventName, {u.cb})
  /\ called' = called \cup {u.k}
  /\ lastEv' = [op |-> "unsubscribe", eventName |-> u.eventName, cb |-> u.cb,
                again |-> u.k \in called]
  /\ UNCHANGED << requestIdCounter, c2h, disposed, callVars, streamVars, nHandlers,
                  unsubscribers, invoked, exposedApi >>

\* off(eventName, callback) of the bus: api.off(name, handler), then
\* unregisterHandler(name, handler).
BusOff(eventName, cb) ==
  /\ eventHandlers' = RemoveHandler(eventHandlers, eventName, Plain(cb))
  /\ eventOut' = eventOut \o SentByRemove(eventHandlers, eventName, Plain(cb))
  /\ handlerRegistry' = UnregisterAll(handlerRegistry, eventName, {cb})
  /\ subscribedEvents' =
       SubscribedAfterUnregister(handlerRegistry, subscribedEvents, eventName, {cb})
  /\ lastEv' = [op |-> "off", eventName |-> eventName, cb |-> cb, again |-> FALSE]
  /\ UNCHANGED << requestIdCounter, c2h, disposed, callVars, streamVars, nHandlers,
                  unsubscribers, called, invoked, exposedApi >>

\* off(eventName) of the bus: api.off(name), then unregisterHandler(name),
\* which does nothing without an entry of the registry.
BusOffAll(eventName) ==
  /\ eventHandlers' = DeleteEntry(eventHandlers, eventName)
  /\ eventOut' = IF eventName \in DOMAIN eventHandlers
                 THEN Append(eventOut, UnsubscribeMessage(eventName)) ELSE eventOut
  /\ handlerRegistry' = DeleteEntry(handlerRegistry, eventName)
  /\ subscribedEvents' = IF eventName \in DOMAIN handlerRegistry
                         THEN subscribedEvents \ {eventName} ELSE subscribedEvents
  /\ lastEv' = [op |-> "offAll", eventName |-> eventName, cb |-> "", again |-> FALSE]
  /\ UNCHANGED << requestIdCounter, c2h, disposed, callVars, streamVars, nHandlers,
                  unsubscribers, called, invoked, exposedApi >>

\* once(eventName, callback) of the bus: registerHandler, then api.once with
\* a wrapper of its own.
BusOnce(eventName, cb) ==
  /\ nHandlers < MaxHandlers
  /\ nHandlers' = nHandlers + 1
  /\ handlerRegistry' = RegistryAfterRegister(handlerRegistry, eventName, cb)
  /\ subscribedEvents' = subscribedEvents \cup {eventName}
  /\ eventHandlers' = AddHandler(eventHandlers, eventName, BusOnceWrapper(cb, nHandlers + 1))
  /\ eventOut' = eventOut \o SentByAdd(eventHandlers, eventName)
  /\ lastEv' = [op |-> "once", eventName |-> eventName, cb |-> cb, again |-> FALSE]
  /\ UNCHANGED << requestIdCounter, c2h, disposed, callVars, streamVars, unsubscribers,
                  called, invoked, exposedApi >>

\* getSubscribedEvents(), as a set.
getSubscribedEvents == subscribedEvents

\* One event bus in the renderer, and the events that reach the preload.
NextBus ==
  \/ \E e \in EventNames, cb \in Callbacks : BusOn(e, cb)
  \/ \E e \in EventNames, cb \in Callbacks : BusOnce(e, cb)
  \/ \E u \in unsubscribers : BusUnsubscribe(u)
  \/ \E e \in EventNames, cb \in Callbacks : BusOff(e, cb)
  \/ \E e \in EventNames : BusOffAll(e)
  \/ \E e \in EventNames, throwing \in SUBSET Callbacks : ClientReceivesEvent(e, throwing)

SpecBus == Init /\ [][NextBus]_vars

(***************************************************************************)
(* Claims.                                                                 *)
(***************************************************************************)
\* The promise the caller of a call holds.
CallerPromise(c) == IF calls[c].api = "renderer" THEN outer[c] ELSE inner[c]

\* No response frame with the id of call c was ever delivered.
NeverAnswered(c) == ~late[c] /\ (first[c] = None \/ first[c][1].ev # "response")

\* C1: the promise of a preload call is settled exactly once, by whichever of
\* {response with its id, its timer} happens first; a later response with the
\* same id invokes neither resolve nor reject and leaves the outcome as it was.
C1_SettledOnceByFirstEvent ==
  \A c \in Issued :
    /\ inner[c].n = IF first[c] = None THEN 0 ELSE 1
    /\ first[c] = None => inner[c].state = "pending"
    /\ first[c] # None =>
         LET e == first[c][1] IN
           IF e.ev = "timer"
           THEN inner[c].state = "rejected" /\ inner[c].error[1].message = "RPC timeout"
           ELSE IF e.resp[1].error # None
           THEN /\ inner[c].state = "rejected"
                /\ inner[c].error[1].message = e.resp[1].error[1].message
           ELSE inner[c].state = "resolved" /\ inner[c].result = e.resp[1].result

\* C1 witness: a call timed out and a response with its id arrived afterwards.
C1_Witness_LateResponseAfterTimeout ==
  \E c \in Issued : first[c] # None /\ first[c][1].ev = "timer" /\ late[c] /\ inner[c].n = 1

\* C6: a call through createRpcClient({timeout: T}) that never receives a
\* response and is rejected, is rejected with RpcTimeoutError whose recorded
\* duration is T, for every T > 0.
C6_TimeoutErrorCarriesConfiguredDuration ==
  \A c \in Issued :
    (calls[c].api = "renderer" /\ NeverAnswered(c) /\ outer[c].state = "rejected")
      => outer[c].error = Some(RpcTimeoutError(calls[c].timeout))

\* C7: the response listener and the timers of a call exist exactly while the
\* call is unsettled for its caller, so the registered response listeners are
\* as many as the unsettled calls.
C7_EntryExistsExactlyWhileUnsettled ==
  /\ \A c \in Issued :
       /\ (CallerPromise(c).state = "pending") <=> (c \in rpcListeners)
       /\ CallerPromise(c).state # "pending" => \A t \in timers : t[1] # c
  /\ Cardinality(rpcListeners)
       = Cardinality({ c \in Issued : CallerPromise(c).state = "pending" })

\* C8: a call whose matching response carries an error {code, message} is
\* rejected with an error that carries that code and that message.
C8_RejectionCarriesCodeAndMessage ==
  \A c \in Issued :
    (first[c] # None /\ first[c][1].ev = "response" /\ first[c][1].resp[1].error # None)
      => /\ inner[c].state = "rejected"
         /\ inner[c].error[1].code = Some(first[c][1].resp[1].error[1].code)
         /\ inner[c].error[1].message = first[c][1].resp[1].error[1].message

\* C9: when connection loss is signalled, every call pending at that moment
\* is rejected with RpcConnectionError, and none of them is left pending.
C9_ConnectionLossRejectsAllPending ==
  atLoss # None =>
    \A c \in atLoss[1] :
      /\ inner[c].state = "rejected"
      /\ inner[c].error[1].name = "RpcConnectionError"
      /\ inner[c].n = 1
      /\ c \notin rpcListeners
      /\ \A t \in timers : t[1] # c

\* C10: each pending call of the preload client owns exactly one timer, and no
\* call that was pending when dispose() ran is settled by its timer afterwards.
C10_NoTimerSettlesAfterDispose ==
  /\ \A c \in Issued :
       (calls[c].api = "preload" /\ inner[c].state = "pending")
         => Cardinality({ t \in timers : t[1] = c }) = 1
  /\ \A c \in atDispose : ~(first[c] # None /\ first[c][1].ev = "timer")

\* The timer a client with a configurable timeout arms for call c.
OwnTimer(c) == IF calls[c].api = "renderer" THEN <<c, "renderer">> ELSE <<c, "preload">>

\* The timeout argument is absent, zero or negative.
AbsentOrNonPositive(arg) == arg = None \/ arg[1] <= 0

\* C11: a call of a client created with an absent or non-positive timeout
\* (createPreloadClient, createRpcClient) is timed with the default of 30000
\* ms: the timer that rejects it is due no sooner than 30000 ms after the call.
C11_DefaultAppliesToAbsentOrNonPositive ==
  \A c \in Issued :
    (calls[c].api \in {"preload", "renderer"} /\ AbsentOrNonPositive(calls[c].given))
      => Delay(OwnTimer(c)) = DefaultTimeout

\* What call c has of its own: its promises, its listener, its timers.
OwnState(c) == << inner[c], outer[c], c \in rpcListeners, { t \in timers : t[1] = c } >>
OwnStateNext(c) == << inner'[c], outer'[c], c \in rpcListeners', { t \in timers' : t[1] = c } >>

\* The calls a step changes.
Touched == { c \in Calls : OwnStateNext(c) # OwnState(c) }

\* A response frame is delivered; a timer fires.
ResponseStep == nResponses' = nResponses + 1
TimerStep == nResponses' = nResponses /\ calls' = calls /\ timers' # timers

\* C30: with several calls pending, every step touches at most one call. A
\* response frame with id i touches no call but the one with id i, and
\* settles it at once if it is pending, whichever calls were issued before it
\* and are still pending; a timer that fires touches only the call it was
\* armed for.
C30_OnlyTheAddressedCallChanges ==
  [][ /\ Cardinality(Touched) <= 1
      /\ ResponseStep =>
           \A c \in Issued :
             /\ c \in Touched =>
                  /\ first[c] = None /\ first'[c] # None
                  /\ first'[c][1].ev = "response"
                  /\ first'[c][1].resp[1].id = Some(calls[c].id)
             /\ (first[c] = None /\ first'[c] # None) =>
                  /\ inner'[c].state # "pending"
                  /\ c \notin rpcListeners'
                  /\ \A t \in timers' : t[1] # c
      /\ TimerStep =>
           \E c \in Issued :
             /\ Touched = {c}
             /\ \E t \in timers \ timers' : t[1] = c
             /\ timers' \subseteq timers
    ]_vars

\* C30 witness: the second call was settled by its response while the first
\* call, issued before it, is still pending with its listener and its timer.
C30_Witness_SecondSettledFirstPending ==
  /\ {1, 2} \subseteq Issued
  /\ first[2] # None /\ first[2][1].ev = "response"
  /\ inner[2].state = "resolved"
  /\ inner[1].state = "pending"
  /\ 1 \in rpcListeners
  /\ << 1, "preload" >> \in timers

(***************************************************************************)
(* Claims about the dispatch of requests.                                  *)
(***************************************************************************)
\* The requests a renderer sent that reached handleMessage.
Dispatched == { r \in StreamSlots : sreq[r].kind = "request" /\ pr[r].phase # "none" }

\* The response frames among those the host sent whose id is that of request r.
ResponsesTo(r) == SelectSeq(hostSent, LAMBDA f : f.ch = "rpc" /\ f.id = sreq[r].id)

\* Nothing of request r is left to run on the host.
Completed(r) ==
  /\ pr[r].phase = "done"
  /\ \A k \in 1..Len(hostMicro) : hostMicro[k].r # r

\* e occurs in the trace of request r.
Did(r, e) == \E k \in 1..Len(pr[r].trace) : pr[r].trace[k] = e

\* C12: the host never sends a response frame for a notification (a request
\* whose id is absent or null), whatever the outcome of its dispatch: every
\* response frame sent answers a request that has an id.
C12_NoResponseForNotification ==
  \A k \in 1..Len(hostSent) :
    hostSent[k].ch = "rpc"
      => /\ hostSent[k].id # None /\ hostSent[k].id # Null
         /\ \E r \in StreamSlots : sreq[r].id = hostSent[k].id

\* C12 witness: a notification was dispatched to a handler that threw, and
\* the host has nothing left to run.
C12_Witness_NotificationHandlerThrew ==
  \E r \in Dispatched :
    /\ sreq[r].id \in {None, Null}
    /\ Completed(r)
    /\ pr[r].hres = "throw"

UnknownMethod(r) ==
  /\ sreq[r].method # None
  /\ sreq[r].method[1] = "string"
  /\ sreq[r].method[2] # ""
  /\ sreq[r].method[2] \notin pr[r].table

\* C14: a request for a method that is not in the table gets the error
\* MethodNotFound (-32601) whose message contains the name of the method,
\* and neither a validator nor a handler runs for it.
C14_UnknownMethodNotFound ==
  \A r \in Dispatched :
    UnknownMethod(r)
      => /\ ~Did(r, "validate") /\ ~Did(r, "handler") /\ ~Did(r, "mint")
         /\ pr[r].response # None
         /\ pr[r].response[1].result = None
         /\ pr[r].response[1].error # None
         /\ pr[r].response[1].error[1].code = MethodNotFoundCode
         /\ pr[r].response[1].error[1].message[2] = sreq[r].method[2]
         /\ \A k \in 1..Len(ResponsesTo(r)) : ResponsesTo(r)[k] = pr[r].response[1]

\* C14 witness: a request with an id for a method that was not registered
\* was answered.
C14_Witness_UnknownMethodAnswered ==
  \E r \in Dispatched :
    /\ UnknownMethod(r)
    /\ sreq[r].id = Some(r)
    /\ Len(ResponsesTo(r)) = 1

\* The method of request r is absent, the empty string, or no string.
MalformedMethod(r) ==
  \/ sreq[r].method = None
  \/ sreq[r].method[1] # "string"
  \/ sreq[r].method[2] = ""

\* C15: a request with an id whose method is absent, empty or not a string
\* gets the error InvalidRequest (-32600); no lookup, no validator and no
\* handler runs for it.
C15_MalformedMethodInvalidRequest ==
  \A r \in Dispatched :
    (MalformedMethod(r) /\ sreq[r].id # None /\ sreq[r].id # Null)
      => /\ pr[r].trace = <<>>
         /\ pr[r].response # None
         /\ pr[r].response[1].result = None
         /\ pr[r].response[1].error # None
         /\ pr[r].response[1].error[1].code = InvalidRequestCode
         /\ \A k \in 1..Len(ResponsesTo(r)) : ResponsesTo(r)[k] = pr[r].response[1]

\* C15 witness: a request with an id and the empty string as its method was
\* answered while "m" was registered.
C15_Witness_EmptyMethodAnswered ==
  \E r \in Dispatched :
    /\ sreq[r].method = Str("")
    /\ sreq[r].id = Some(r)
    /\ "m" \in pr[r].table
    /\ Len(ResponsesTo(r)) = 1

\* The positional list of params: empty for absent params, the array itself
\* for an array, the one-element list of the object for an object.
PositionalList(params) ==
  IF params.kind = "undefined" THEN <<>>
  ELSE IF params.kind = "array" THEN params.val
  ELSE << params >>

\* The position of the first e in the trace of request r, 0 if there is none.
FirstAt(r, e) ==
  IF Did(r, e) THEN CHOOSE k \in 1..Len(pr[r].trace) :
                      pr[r].trace[k] = e /\ \A j \in 1..(k - 1) : pr[r].trace[j] # e
  ELSE 0

HandlerFailed(r) == ~IsStream(pr[r].name) /\ pr[r].hres = "throw" /\ pr[r].phase = "done"

C18_ArgumentsArePositionalList ==
  \A r \in Dispatched :
    /\ pr[r].vargs # None => pr[r].vargs[1] = PositionalList(sreq[r].params)
    /\ pr[r].hargs # None => pr[r].hargs[1] = PositionalList(sreq[r].params)

\* C18 witness: a handler was called for a request whose params are an object.
C18_Witness_HandlerCalledWithObject ==
  \E r \in Dispatched :
    /\ sreq[r].params.kind = "object"
    /\ pr[r].hargs = Some(<< sreq[r].params >>)
    /\ pr[r].vargs = Some(<< sreq[r].params >>)

(***************************************************************************)
(* Claims about the event bus.                                             *)
(***************************************************************************)
\* The frames the last publish sent to window w.
SentTo(w) == SelectSeq(published.sent, LAMBDA m : m.to = w)

\* C19: publish(e, d) sends exactly one event frame to each connected window
\* whose id is in the subscriber set of e and nothing to any other; without a
\* subscriber set for e it sends nothing.
C19_PublishReachesConnectedSubscribers ==
  published.called
    => IF published.subscribers = None
       THEN published.sent = <<>>
       ELSE \A w \in Windows :
              IF w \in published.windows /\ w \in published.subscribers[1]
              THEN SentTo(w) =
                     << [to |-> w, frame |-> EventFrame(published.eventName, published.data)] >>
              ELSE SentTo(w) = <<>>

\* C19 witness: publish ran while one subscriber was connected, another had
\* closed its window, and a frame was sent.
C19_Witness_OneSubscriberGone ==
  /\ published.called
  /\ published.subscribers # None
  /\ \E w \in Windows : w \in published.subscribers[1] /\ w \notin published.windows
  /\ Len(published.sent) = 1

\* The registry before the last event bus message has window w subscribed to e.
WasSubscribed(e, w) == e \in DOMAIN lastBus.before /\ w \in lastBus.before[e]

\* C20: subscribing a window that is subscribed already leaves the registry
\* as it is, with the window counted once; unsubscribing a window that is not
\* subscribed, or from an event without an entry, leaves it as it is.
C20_SubscribeUnsubscribeIdempotent ==
  (lastBus.type # "none" /\ lastBus.sender # None)
    => LET e == lastBus.eventName
           w == lastBus.sender[1]
       IN /\ (lastBus.type = "subscribe" /\ WasSubscribed(e, w))
               => /\ eventSubscribers = lastBus.before
                  /\ Cardinality(eventSubscribers[e]) = Cardinality(lastBus.before[e])
          /\ (lastBus.type = "unsubscribe" /\ ~WasSubscribed(e, w))
               => eventSubscribers = lastBus.before
          /\ lastBus.type = "subscribe" => w \in eventSubscribers[e]
          /\ lastBus.type = "unsubscribe"
               => (e \notin DOMAIN eventSubscribers \/ w \notin eventSubscribers[e])

\* C20 witness: a window that was not subscribed to an event others are
\* subscribed to unsubscribed from it.
C20_Witness_UnsubscribedNonSubscriber ==
  /\ lastBus.type = "unsubscribe"
  /\ lastBus.sender # None
  /\ lastBus.eventName \in DOMAIN lastBus.before
  /\ lastBus.sender[1] \notin lastBus.before[lastBus.eventName]
  /\ eventSubscribers = lastBus.before

\* The windows subscribed to e after the last event bus message, told from
\* the registry before it and the message.
SubscribedAfter(e) ==
  LET was == IF e \in DOMAIN lastBus.before THEN lastBus.before[e] ELSE {}
  IN IF lastBus.sender = None \/ lastBus.eventName # e THEN was
     ELSE IF lastBus.type = "subscribe" THEN was \cup {lastBus.sender[1]}
     ELSE IF lastBus.type = "unsubscribe" THEN was \ {lastBus.sender[1]}
     ELSE was

\* C21: the registry never holds an event name with an empty subscriber set,
\* and getEventSubscribers() reports exactly the event names with at least
\* one subscriber, each with the number of distinct window ids subscribed to
\* it: after a message, the windows subscribed before it, with the sender
\* added by subscribe and removed by unsubscribe.
C21_CountsOfNonEmptySets ==
  /\ \A e \in DOMAIN eventSubscribers : eventSubscribers[e] # {}
  /\ \A e \in DOMAIN getEventSubscribers : getEventSubscribers[e] >= 1
  /\ lastBus.type # "none" =>
       /\ DOMAIN getEventSubscribers = { e \in EventNames : SubscribedAfter(e) # {} }
       /\ \A e \in DOMAIN getEventSubscribers :
            getEventSubscribers[e] = Cardinality(SubscribedAfter(e))

\* C21 witness: the only subscriber of an event unsubscribed, and the report
\* is empty.
C21_Witness_LastSubscriberLeft ==
  /\ lastBus.type = "unsubscribe"
  /\ lastBus.sender # None
  /\ DOMAIN lastBus.before = {lastBus.eventName}
  /\ lastBus.before[lastBus.eventName] = {lastBus.sender[1]}
  /\ getEventSubscribers = EmptyMap

(***************************************************************************)
(* Claims about streams.                                                   *)
(***************************************************************************)
\* The frames of stream sid among those the host sent, in send order.
StreamFrames(sid) == SelectSeq(hostSent, LAMBDA f : f.ch = "stream" /\ f.streamId = sid)

\* A stream frame as <<type, value>>.
FrameLabel(f) == IF f.type = "chunk" THEN << "chunk", f.data[1] >> ELSE << f.type, 0 >>

SentLabels(sid) == [k \in 1..Len(StreamFrames(sid)) |-> FrameLabel(StreamFrames(sid)[k])]

\* chunk(1), ..., chunk(n)
ChunkLabels(n) == [k \in 1..n |-> << "chunk", k >>]

\* The number of values the handler of invocation r has yielded so far: the
\* values read from its stream, or its one plain value.
Yielded(r) ==
  IF hs[r].result = "value" THEN (IF hs[r].phase = "done" THEN 1 ELSE 0) ELSE hs[r].reads

\* C2: for every stream call with an id, the host sends the response that
\* carries the stream id before any chunk, end or error frame of that stream.
C2_HandleResponseBeforeStreamFrames ==
  \A k \in 1..Len(hostSent) :
    (/\ hostSent[k].ch = "stream"
     /\ \E r \in StreamSlots : hs[r].sid = hostSent[k].streamId /\ sreq[r].id # None)
    => \E j \in 1..(k - 1) :
         /\ hostSent[j].ch = "rpc"
         /\ hostSent[j].result = Some([streamId |-> hostSent[k].streamId])

\* C3: when the handler yielded v1..vn and ended normally, and every frame
\* the host sent has been processed by a client that got its handle, the
\* stream of stream() has received exactly v1..vn in order and is closed.
C3_ConsumerReceivesAllThenEnd ==
  \A r \in StreamSlots :
    (/\ sreq[r].kind = "stream"
     /\ hs[r].ending = "close"
     /\ nDelivered = Len(hostSent)
     /\ clientMicro = <<>>
     /\ cs[r].phase = "registered"
     /\ ~cs[r].cancelled)
    => /\ cs[r].got \o cs[r].queue = [k \in 1..Yielded(r) |-> k]
       /\ cs[r].state \in {"closing", "closed"}

\* C4: for a handler that yields v1..vn and finishes normally the host sends
\* exactly chunk(v1), ..., chunk(vn), end, in that order and nothing after the
\* end; a plain value v gives chunk(v), end.
C4_ChunksInOrderThenEnd ==
  \A r \in StreamSlots :
    (hs[r].phase # "none" /\ hs[r].ending # "error")
    => SentLabels(hs[r].sid)
         = ChunkLabels(Yielded(r)) \o
             (IF hs[r].ending = "close" THEN << << "end", 0 >> >> ELSE <<>>)

\* C4 witness: a stream of two values that closed has been sent in full.
C4_Witness_TwoChunksThenEnd ==
  \E r \in StreamSlots :
    /\ hs[r].result = "stream" /\ hs[r].reads = 2 /\ hs[r].ending = "close"
    /\ Len(StreamFrames(hs[r].sid)) = 3

\* C5: a stream id has at most one terminal frame, never both an end and an
\* error, and no frame after its terminal frame; a source that yields one
\* value and then fails gives exactly chunk(value), error.
C5_AtMostOneTerminalFrame ==
  \A sid \in 1..streamIdCounter :
    LET fs == StreamFrames(sid)
        terminals == { k \in 1..Len(fs) : fs[k].type \in {"end", "error"} }
    IN /\ Cardinality(terminals) <= 1
       /\ \A k \in terminals : k = Len(fs)
       /\ \A r \in StreamSlots :
            (hs[r].sid = sid /\ hs[r].result = "stream" /\ hs[r].reads = 1
               /\ hs[r].ending = "error")
            => SentLabels(sid) = << << "chunk", 1 >>, << "error", 0 >> >>

\* C5 witness: a source yielded one value and then failed.
C5_Witness_OneValueThenFailure ==
  \E r \in StreamSlots :
    hs[r].result = "stream" /\ hs[r].reads = 1 /\ hs[r].ending = "error"

(***************************************************************************)
(* Claims about the streams of the client.                                 *)
(***************************************************************************)
\* C22: whenever the consumer cancels a stream of stream() that has not
\* terminated, at whatever point of its life, the cancel callback sends an
\* end frame with the stream's id upstream.
C22_CancelSendsEndUpstream ==
  \A r \in StreamSlots : cs[r].cancelled => cs[r].cancelSent

\* C23: a stream frame that arrives for a stream the consumer has cancelled,
\* before or after the handle response arrived, is dropped: it finds no
\* controller and no call of the stream listener throws.
C23_LateFramesAreDropped ==
  \A r \in StreamSlots : ~cs[r].lateHit /\ ~cs[r].threw

\* s is a prefix of t.
IsPrefix(s, t) == Len(s) <= Len(t) /\ \A k \in 1..Len(s) : s[k] = t[k]

\* An error frame was handled with the controller of stream r while its
\* consumer had not cancelled.
ErrorArrived(r) == cs[r].term = "error" /\ ~cs[r].cancelled

\* C24: once an error frame has arrived for a registered stream, the stream
\* is errored, its consumer's iteration never ends normally, its entry is
\* gone, and no later frame changes anything of it (a later frame of its id
\* is dropped); the values the consumer has read are never retracted.
C24_ErrorFrameEndsTheIteration ==
  /\ [](\A r \in StreamSlots :
          ErrorArrived(r) =>
            /\ cs[r].state = "errored"
            /\ cs[r].seen # "done"
            /\ \A e \in activeStreams : e[2] # r)
  /\ [][\A r \in StreamSlots :
          /\ IsPrefix(cs[r].got, cs'[r].got)
          /\ ErrorArrived(r) =>
               \/ cs'[r] = cs[r]
               \/ cs'[r] = [cs[r] EXCEPT !.ignored = TRUE]
               \/ cs[r].seen = "open" /\ cs'[r] = [cs[r] EXCEPT !.seen = "thrown"]
     ]_vars

\* C24 witness: the consumer had read a value when the error frame arrived,
\* its next read threw, and a later frame of the stream's id was dropped.
C24_Witness_ThrownAfterValue ==
  \E r \in StreamSlots :
    /\ ErrorArrived(r)
    /\ cs[r].got # <<>>
    /\ cs[r].seen = "thrown"
    /\ cs[r].ignored

(***************************************************************************)
(* Claims about the active streams of the host.                            *)
(***************************************************************************)
\* The stream calls the host accepted.
Accepted == { r \in StreamSlots : hs[r].phase # "none" }

\* The host has sent the terminal frame of the stream of invocation r.
TerminalSent(r) == hs[r].ending # "none"

\* C26 as stated: the entry of a stream exists from the acceptance of the
\* call until its terminal frame has been sent, and nothing else removes it.
C26_EntryExactlyUntilTerminal ==
  \A r \in Accepted : (hs[r].sid \in streams) <=> ~TerminalSent(r)

\* C26 amended: the entry of a stream is created when the call is accepted;
\* no entry remains for a stream whose terminal frame was sent; and an entry
\* is removed only by the step that sends the terminal frame, by an end or
\* error frame the client sent for that id, or by dispose().
C26_EntryRemovedByTerminalCancelOrDispose ==
  /\ [](\A r \in Accepted : TerminalSent(r) => hs[r].sid \notin streams)
  /\ [][\A r \in StreamSlots :
          /\ (hs[r].phase = "none" /\ hs'[r].phase # "none") => hs'[r].sid \in streams'
          /\ (hs[r].phase # "none" /\ hs[r].sid \in streams /\ hs[r].sid \notin streams') =>
               \/ ~TerminalSent(r) /\ hs'[r].ending # "none"
               \/ /\ c2h # <<>> /\ c2h' = Tail(c2h)
                  /\ Head(c2h).ch = "stream"
                  /\ Head(c2h).type \in {"end", "error"}
                  /\ Head(c2h).streamId = hs[r].sid
               \/ isListening /\ ~isListening' /\ streams' = {}
     ]_vars

\* C26 witness: the consumer cancelled, the host removed the entry on the
\* end frame it received, and the producer has sent no terminal frame yet.
C26_Witness_RemovedByCancel ==
  \E r \in Accepted :
    /\ cs[r].cancelSent
    /\ isListening
    /\ hs[r].sid \notin streams
    /\ ~TerminalSent(r)

\* The windows a frame of invocation r must go to when it is sent now.
DueTargets(r) == IF sreq[r].sender # None THEN {sreq[r].sender[1]} ELSE connected

\* C25: every frame of a stream whose request came in an event with a sender
\* is sent to that sender and to no other window; every frame of a stream
\* whose request came without a sender is sent to exactly the windows that
\* are connected when that frame is sent.
C25_FramesGoToSenderOrAllWindows ==
  /\ [](\A r \in Accepted : Len(hs[r].to) = Len(StreamFrames(hs[r].sid)))
  /\ [][\A r \in StreamSlots :
          /\ Len(hs'[r].to) >= Len(hs[r].to)
          /\ \A k \in 1..Len(hs'[r].to) :
               hs'[r].to[k] = IF k <= Len(hs[r].to) THEN hs[r].to[k] ELSE DueTargets(r)
     ]_vars

\* C25 witness: of a stream requested without a sender, one frame went to
\* one set of windows and a later frame, after a window had opened or closed,
\* to another set, which was not empty.
C25_Witness_WindowsChangedBetweenFrames ==
  \E r \in Accepted :
    /\ sreq[r].sender = None
    /\ Len(hs[r].to) >= 2
    /\ hs[r].to[1] # hs[r].to[2]
    /\ hs[r].to[2] # {}

(***************************************************************************)
(* Claims about the life cycle of the server.                              *)
(***************************************************************************)
\* This step is a call of dispose() (one that repeats a dispose() that found
\* the server not listening changes nothing and is no step).
DisposeStep == lastCall' # lastCall /\ lastCall'.op = "dispose"

\* C27: after dispose(), whether or not listen() was called before, no
\* listener of the server is attached to any of the three channels, and the
\* method table, the active streams and the subscriber registry are empty.
C27_DisposeIsFullTeardown ==
  [][DisposeStep =>
       /\ \A ch \in Channels : ipcListeners'[ch] = 0
       /\ getMethodNames' = {}
       /\ streams' = {}
       /\ eventSubscribers' = EmptyMap
    ]_vars

\* C28: after any sequence of listen() and dispose(), each of the three
\* channels has at most one listener of the server attached, exactly one
\* when the last of these calls was listen() and none when it was dispose();
\* every request that is dispatched is handed to exactly one listener.
C28_ListenIsIdempotent ==
  /\ \A ch \in Channels :
       /\ ipcListeners[ch] <= 1
       /\ lastCall.op = "listen" => ipcListeners[ch] = 1
       /\ lastCall.op = "dispose" => ipcListeners[ch] = 0
  /\ \A r \in StreamSlots : pr[r].phase # "none" => pr[r].listeners = 1

\* C28 witness: the last call of listen() found the server listening
\* already, and a request has been dispatched and answered.
C28_Witness_DispatchedAfterSecondListen ==
  /\ lastCall = [op |-> "listen", noop |-> TRUE]
  /\ \E r \in StreamSlots : pr[r].phase = "done" /\ Len(ResponsesTo(r)) = 1

\* C29: the health check is registered in every reachable state of a server,
\* after any sequence of register, unregister, listen and dispose.
C29_HealthCheckAlwaysRegistered == has(HEALTH_CHECK_METHOD)

(***************************************************************************)
(* Claims about the event API of the client.                               *)
(***************************************************************************)
\* The messages a step of the client appends to those in flight.
Sent == SubSeq(eventOut', Len(eventOut) + 1, Len(eventOut'))
SentCount(m) == Cardinality({ i \in 1..Len(Sent) : Sent[i] = m })

\* A step other than the host taking a message and other than dispose().
ApiStep == Len(eventOut') >= Len(eventOut) /\ disposed' = disposed

FirstAdded(e) == e \notin DOMAIN eventHandlers /\ e \in DOMAIN eventHandlers'
LastRemoved(e) == e \in DOMAIN eventHandlers /\ e \notin DOMAIN eventHandlers'

\* A step sends one subscribe message for e if it adds the first handler of
\* e and none otherwise, one unsubscribe message for e if it removes the last
\* handler of e and none otherwise; off for an event without handlers sends
\* nothing.
SendsOnFirstAndLast ==
  /\ \A e \in EventNames :
       /\ SentCount(SubscribeMessage(e)) = (IF FirstAdded(e) THEN 1 ELSE 0)
       /\ SentCount(UnsubscribeMessage(e)) = (IF LastRemoved(e) THEN 1 ELSE 0)
  /\ (lastEv'.op \in {"off", "offAll"} /\ lastEv'.eventName \notin DOMAIN eventHandlers)
       => Sent = <<>>

\* The step is the call of an unsubscribe function that had been called before.
SecondCall == lastEv'.op = "unsubscribe" /\ lastEv'.again

\* C32 as stated: a step of on, off, once, an unsubscribe function or an
\* event delivery sends a subscribe message for e exactly when it adds the
\* first handler of e and an unsubscribe message for e exactly when it removes
\* the last handler of e; off for an event without handlers and the second
\* call of an unsubscribe function send nothing.
C32_SecondUnsubscribeSendsNothing ==
  [][ApiStep => (SendsOnFirstAndLast /\ (SecondCall => Sent = <<>>))]_vars

\* C32 amended: as stated, but the second call of an unsubscribe function
\* sends nothing if its callback is no handler of the event when it is called.
C32_SubscribeOnFirstUnsubscribeOnLast ==
  [][ApiStep =>
       /\ SendsOnFirstAndLast
       /\ (SecondCall /\ Plain(lastEv'.cb) \notin HandlersOf(eventHandlers, lastEv'.eventName))
            => Sent = <<>>]_vars

\* C32 witness: on("a", f) returned an unsubscribe function that was called;
\* after on("a", g) it was called again and sent nothing.
C32_Witness_SecondCallWithOtherHandler ==
  /\ lastEv = [op |-> "unsubscribe", eventName |-> "a", cb |-> "f", again |-> TRUE]
  /\ eventOut = << SubscribeMessage("a"), UnsubscribeMessage("a"), SubscribeMessage("a") >>
  /\ eventHandlers = [e \in {"a"} |-> {Plain("g")}]

\* C33: the callback of a call of once is invoked for at most one event,
\* whether it throws or not, in both APIs.
C33_OnceInvokedAtMostOnce == \A k \in 1..MaxHandlers : invoked[k] <= 1

\* C37: when no message of the client is in flight, the host holds the window
\* of the client as a subscriber of e exactly when the client holds a handler
\* for e.
C37_HostSubscriptionMatchesHandlers ==
  eventOut = <<>> =>
    \A e \in EventNames :
      (e \in DOMAIN eventSubscribers /\ ClientWindow \in eventSubscribers[e])
        <=> e \in DOMAIN eventHandlers

\* C38: while the module holds an event handler or a stream controller, its
\* listeners of the event and stream channels are attached.
C38_ListenersAttachedWhileInUse ==
  (DOMAIN eventHandlers # {} \/ activeStreams # {}) => ~disposed

\* The events for which the preload holds a handler, which the next event
\* frame of that name invokes.
LiveEvents == { e \in EventNames : HandlersOf(eventHandlers, e) # {} }

\* C36: getSubscribedEvents() of an event bus returns exactly the names of
\* the events for which a handler registered through the bus is still live.
C36_SubscribedEventsAreTheLiveOnes == getSubscribedEvents = LiveEvents

(***************************************************************************)
(* Claims about the errors of a stream on the client.                      *)
(***************************************************************************)
\* The error frames the client has received for the stream of slot r.
ErrorFramesOf(r) ==
  { i \in 1..nDelivered :
      /\ hostSent[i].ch = "stream"
      /\ hostSent[i].type = "error"
      /\ cs[r].streamKey = Some(hostSent[i].streamId) }

\* C39: when the producer of a stream fails with an error of message m, the
\* error the consumer's iteration throws carries the message m.
C39_ConsumerSeesProducersMessage ==
  \A r \in StreamSlots :
    (cs[r].term = "error" /\ cs[r].state = "errored") =>
      \A i \in ErrorFramesOf(r) : cs[r].error = Some(hostSent[i].data[1].message)

\* The wait of slot r for its stream id was rejected and the catch block of
\* start has run.
StartFailed(r) == cs[r].phase = "failed"

\* The response listener and the timer of slot r are gone and the client
\* holds no stream entry with its controller.
NothingLeftOf(r) ==
  /\ ~cs[r].listener
  /\ ~cs[r].timer
  /\ ~\E e \in activeStreams : e[2] = r

RequestFramesSent == { c2h[i] : i \in { j \in 1..Len(c2h) : c2h[j].ch = "rpc" } }

\* C34: in whitelist mode the renderer can cause, through the exposed API,
\* request frames only for the method names of the whitelist.
C34_OnlyWhitelistedMethodsRequested ==
  (exposedApi # None /\ exposedApi[1].methods # {}) =>
    \A f \in RequestFramesSent : f.method \in { Str(m) : m \in exposedApi[1].methods }

(***************************************************************************)
(* Claims about the method table during a dispatch.                        *)
(***************************************************************************)
\* processRequest of slot r found its method and has returned.
FoundAndReturned(r) == pr[r].phase = "done" /\ pr[r].name \in pr[r].table

\* The response of a dispatch, from the request and from what the validator
\* and the handler of its method did.
ResponseWithoutChange(r) ==
  LET p == pr[r] IN
  IF p.vres = "throw"
  THEN ErrorResponse(p.id, invalidParams(DataOfValidationError(p.throws)))
  ELSE IF IsStream(p.name) THEN StreamResponse(p.id, hs[r].sid)
  ELSE IF p.hres = "throw" THEN ErrorResponse(p.id, errorToJsonRpc(p.throws))
  ELSE ResultResponse(p.id, "ok")

\* C35: a dispatch of m is unaffected by register, registerStream and
\* unregister of other methods done while it is suspended: the handler is
\* called exactly when the validator accepted, and the response is the one
\* the request, the validator and the handler determine.
C35_DispatchUnaffectedByOtherMethods ==
  \A r \in StreamSlots :
    FoundAndReturned(r) =>
      /\ (pr[r].hargs # None) <=> (pr[r].vres = "pass")
      /\ pr[r].response = Some(ResponseWithoutChange(r))

C35_Witness_TableChangedDuringDispatch ==
  \E r \in StreamSlots :
    /\ FoundAndReturned(r)
    /\ pr[r].name = "m"
    /\ methods # pr[r].table
    /\ pr[r].trace = << "lookup", "validate", "handler" >>
    /\ pr[r].response = Some(ResultResponse(pr[r].id, "ok"))

(***************************************************************************)
(* Claims about correlation ids.                                           *)
(***************************************************************************)
\* The calls whose response listener is registered, the stream calls whose
\* wait for the handle is pending, and the ids they carry.
LiveCalls == rpcListeners
LiveWaits == { r \in Invocations : cs[r].listener }
LiveIds == { calls[c].id : c \in LiveCalls } \cup { cs[r].callId : r \in LiveWaits }

\* The streams the host has minted an id for.
HostStreams == { r \in Invocations : hs[r].phase # "none" }

\* C31: no two pending calls or pending stream-handle waits carry the same
\* id, the id the generator gives next is the id of no pending entry, and no
\* two streams of the host have the same stream id.
C31_IdsUniqueAmongLiveEntries ==
  /\ \A c, d \in LiveCalls : calls[c].id = calls[d].id => c = d
  /\ \A r, q \in LiveWaits : cs[r].callId = cs[q].callId => r = q
  /\ \A c \in LiveCalls, r \in LiveWaits : calls[c].id # cs[r].callId
  /\ generateRequestId \notin LiveIds
  /\ \A r, q \in HostStreams : hs[r].sid = hs[q].sid => r = q
  /\ \A r \in HostStreams : generateStreamId # hs[r].sid

C31_Witness_CallsWaitsAndStreamsLive ==
  /\ Cardinality(LiveCalls) = 2
  /\ Cardinality(LiveWaits) = 2
  /\ Cardinality(HostStreams) = 2

====
